---- MODULE Spec2Model ----
(***************************************************************************)
(* mw_media_sync: reconciliation of a local media mirror against remote    *)
(* wiki inventories.  The module models                                    *)
(*   - the streaming difference operators of sync/listsmaker.py,           *)
(*   - the list-generation methods of ListsMaker over a project set,       *)
(*   - the run driver do_main of sync_mw_media.py,                         *)
(*   - the bounded downloader of sync/sync.py (class Sync).                *)
(* Byte strings are sequences of byte values compared lexicographically,   *)
(* as Python compares bytes objects.  A line of a list file is the         *)
(* sequence of its whitespace-separated fields (line.split()).             *)
(***************************************************************************)
EXTENDS Integers, Sequences, FiniteSets, TLC

\* ------------------------------------------------------------------ bounds
NumNames == 3
NumTimes == 2
NumProjects == 2
MaxCap == 1
MaxFetchLen == 2

\* ------------------------------------------------------------ byte strings
Min(a, b) == IF a <= b THEN a ELSE b

\* python: a < b on bytes objects (lexicographic, a proper prefix is smaller)
LexLess(a, b) ==
    \E i \in 1..(Min(Len(a), Len(b)) + 1) :
        /\ \A j \in 1..(i - 1) : a[j] = b[j]
        /\ \/ (i > Len(a) /\ i <= Len(b))
           \/ (i <= Len(a) /\ i <= Len(b) /\ a[i] < b[i])

\* python's None; no byte string holds a negative byte
None == << -1 >>

\* the file names of the model, in byte order:
\*   "A.exe" "A.jpg" "A.jpg.jpg" "B.png" "b/c.gif"
NameUniverse ==
    << <<65, 46, 101, 120, 101>>,
       <<65, 46, 106, 112, 103>>,
       <<65, 46, 106, 112, 103, 46, 106, 112, 103>>,
       <<66, 46, 112, 110, 103>>,
       <<98, 47, 99, 46, 103, 105, 102>> >>

\* names that can be files of the local tree (no path separator)
NameIdx == 1..Min(NumNames, 4)
Names == { NameUniverse[i] : i \in NameIdx }

\* timestamps YYYYMMDDHHMMSS, shortened to two digits: "01", "02", ...
TimeOf(i) == << 48 + (i \div 10), 48 + (i % 10) >>
TimeIdx == 1..NumTimes

\* the directory field of a local record: "/d/"
DirOf(name) == <<47, 100, 47>>

\* ---------------------------------------------------------------- records
LocalRec(i, t) == << NameUniverse[i], TimeOf(t), DirOf(NameUniverse[i]) >>
UploadRec(i, t) == << NameUniverse[i], TimeOf(t) >>
ForeignRec(i) == << NameUniverse[i] >>

RECURSIVE BuildLocal(_, _)
BuildLocal(g, i) ==
    IF i > Min(NumNames, 4) THEN <<>>
    ELSE (IF g[i] = 0 THEN <<>> ELSE << LocalRec(i, g[i]) >>) \o BuildLocal(g, i + 1)

RECURSIVE BuildUpload(_, _)
BuildUpload(g, i) ==
    IF i > Min(NumNames, 4) THEN <<>>
    ELSE (IF g[i] = 0 THEN <<>> ELSE << UploadRec(i, g[i]) >>) \o BuildUpload(g, i + 1)

RECURSIVE BuildForeign(_, _)
BuildForeign(g, i) ==
    IF i > Min(NumNames, 4) THEN <<>>
    ELSE (IF g[i] = 0 THEN <<>> ELSE << ForeignRec(i) >>) \o BuildForeign(g, i + 1)

\* all local inventories sorted on the file name, one record per name
LocalLists == { BuildLocal(g, 1) : g \in [NameIdx -> 0..NumTimes] }
\* all normalised uploads lists (name, timestamp), sorted on the name
UploadLists == { BuildUpload(g, 1) : g \in [NameIdx -> 0..NumTimes] }
\* all normalised foreign-repo lists (name only), sorted
ForeignLists == { BuildForeign(g, 1) : g \in [NameIdx -> 0..1] }

\* a line as bytes: the fields joined by a tab, as in the wikiqueries lists
RECURSIVE LineBytes(_)
LineBytes(rec) ==
    IF Len(rec) = 0 THEN <<>>
    ELSE IF Len(rec) = 1 THEN rec[1]
    ELSE rec[1] \o <<9>> \o LineBytes(Tail(rec))

\* python: "not x" for x a bytes object or None
Falsy(x) == x = None \/ x = <<>>

\* ------------------------------------------------- files of the lists tree
Absent == [exists |-> FALSE, lines |-> <<>>]
File(lines) == [exists |-> TRUE, lines |-> lines]

\* f.readline() after n lines were read: the next line, or b"" at end of file
ReadLine(lines, n) == IF n < Len(lines) THEN lines[n + 1] ELSE <<>>

\* =========================================================================
\* ListsMaker.list_local_media_not_on_remote, the loop over one project's
\* keep list K and sorted local list L (haves)
\* =========================================================================

\* "if keeps_eof or keep > have" guarding deletes.write(have_line)
DeleteCondGe(keeps_eof, keep, have) == keeps_eof \/ ~LexLess(keep, have)
DeleteCond(keeps_eof, keep, have) == keeps_eof \/ LexLess(have, keep)

\* the inner while: "while (keep is None or keep < have) and not keeps_eof"
RECURSIVE ReadKeeps(_, _, _, _, _, _)
ReadKeeps(K, ki, keep, keeps_eof, have_line, out) ==
    LET have == have_line[1] IN
    IF (keep = None \/ LexLess(keep, have)) /\ ~keeps_eof
    THEN LET keep_line == ReadLine(K, ki) IN
         IF keep_line = <<>>
         THEN [ki |-> ki, keep |-> keep, keeps_eof |-> TRUE, out |-> out]
         ELSE LET k2 == keep_line[1] IN
              ReadKeeps(K, ki + 1, k2, keeps_eof, have_line,
                        IF DeleteCond(keeps_eof, k2, have)
                        THEN Append(out, have_line) ELSE out)
    ELSE [ki |-> ki, keep |-> keep, keeps_eof |-> keeps_eof, out |-> out]

\* the outer "while True" over the local list
RECURSIVE HavesLoop(_, _, _, _, _, _, _)
HavesLoop(K, L, li, ki, keep, keeps_eof, out) ==
    LET have_line == ReadLine(L, li) IN
    IF have_line = <<>> THEN out
    ELSE LET r == ReadKeeps(K, ki, keep, keeps_eof, have_line, out) IN
         HavesLoop(K, L, li + 1, r.ki, r.keep, r.keeps_eof, r.out)

\* the delete list written for keep list K and local list L
DiffDelete(K, L) == HavesLoop(K, L, 0, 0, None, FALSE, <<>>)

\* =========================================================================
\* ListsMaker.list_uploaded_files_toget_for_project
\* =========================================================================

\* ListsMaker.get_filename_time
get_filename_time(line) == << line[1], line[2] >>

\* "while (local_file is not None and local_file < uploaded_file)"
RECURSIVE ReadLocalsTimed(_, _, _, _, _)
ReadLocalsTimed(L, li, local_file, local_time, uploaded_file) ==
    IF local_file # None /\ LexLess(local_file, uploaded_file)
    THEN LET last_local_line == ReadLine(L, li) IN
         IF last_local_line # <<>>
         THEN ReadLocalsTimed(L, li + 1, get_filename_time(last_local_line)[1],
                              get_filename_time(last_local_line)[2], uploaded_file)
         ELSE ReadLocalsTimed(L, li, None, local_time, uploaded_file)
    ELSE [li |-> li, local_file |-> local_file, local_time |-> local_time]

\* the two branches that write the uploaded file name
UploadedWantedLe(local_file, local_time, uploaded_file, uploaded_time) ==
    IF Falsy(local_file) THEN TRUE
    ELSE IF LexLess(uploaded_file, local_file) THEN TRUE
    ELSE local_file = uploaded_file /\ ~LexLess(uploaded_time, local_time)
UploadedWanted(local_file, local_time, uploaded_file, uploaded_time) ==
    IF Falsy(local_file) THEN TRUE
    ELSE IF LexLess(uploaded_file, local_file) THEN TRUE
    ELSE local_file = uploaded_file /\ LexLess(local_time, uploaded_time)

RECURSIVE UploadedLoop(_, _, _, _, _, _, _)
UploadedLoop(L, U, ui, li, local_file, local_time, out) ==
    LET uploaded_line == ReadLine(U, ui) IN
    IF uploaded_line = <<>> THEN out
    ELSE LET uploaded_file == get_filename_time(uploaded_line)[1]
             uploaded_time == get_filename_time(uploaded_line)[2]
             r == ReadLocalsTimed(L, li, local_file, local_time, uploaded_file)
         IN  UploadedLoop(L, U, ui + 1, r.li, r.local_file, r.local_time,
                          IF UploadedWanted(r.local_file, r.local_time,
                                            uploaded_file, uploaded_time)
                          THEN Append(out, << uploaded_file >>) ELSE out)

\* the -uploaded-toget list written for local list L and uploads list U
DiffFetchUploaded(L, U) == UploadedLoop(L, U, 0, 0, <<>>, None, <<>>)

\* =========================================================================
\* ListsMaker.list_foreignrepo_files_toget_for_project
\* =========================================================================

\* "while (localfile is not None and localfile < foreignrepofile)"
RECURSIVE ReadLocals(_, _, _, _)
ReadLocals(L, li, localfile, foreignrepofile) ==
    IF localfile # None /\ LexLess(localfile, foreignrepofile)
    THEN LET last_local_line == ReadLine(L, li) IN
         IF last_local_line # <<>>
         THEN ReadLocals(L, li + 1, last_local_line[1], foreignrepofile)
         ELSE ReadLocals(L, li, None, foreignrepofile)
    ELSE [li |-> li, localfile |-> localfile]

\* "if not localfile or localfile > foreignrepofile"
ForeignWantedLe(localfile, foreignrepofile) ==
    IF Falsy(localfile) THEN TRUE ELSE ~LexLess(localfile, foreignrepofile)
ForeignWanted(localfile, foreignrepofile) ==
    IF Falsy(localfile) THEN TRUE ELSE LexLess(foreignrepofile, localfile)

RECURSIVE ForeignLoop(_, _, _, _, _, _)
ForeignLoop(L, F, fi, li, localfile, out) ==
    LET foreignrepo_line == ReadLine(F, fi) IN
    IF foreignrepo_line = <<>> THEN out
    ELSE LET foreignrepofile == LineBytes(foreignrepo_line)
             r == ReadLocals(L, li, localfile, foreignrepofile)
         IN  ForeignLoop(L, F, fi + 1, r.li, r.localfile,
                         IF ForeignWanted(r.localfile, foreignrepofile)
                         THEN Append(out, << foreignrepofile >>) ELSE out)

\* the -foreignrepo-toget list written for local list L and foreign list F
DiffFetchForeign(L, F) == ForeignLoop(L, F, 0, 0, <<>>, <<>>)

\* =========================================================================
\* ListsMaker.merge_media_files_to_keep: LC_ALL=C sort -m of two sorted
\* streams, comparing whole lines byte by byte
\* =========================================================================
\* sort -m takes the line of the second stream when it is the smaller one
TakesSecondNever(first, second) == FALSE
TakesSecond(first, second) == LexLess(LineBytes(second), LineBytes(first))

RECURSIVE SortMerge(_, _)
SortMerge(A, B) ==
    IF A = <<>> THEN B
    ELSE IF B = <<>> THEN A
    ELSE IF TakesSecond(A[1], B[1])
         THEN << B[1] >> \o SortMerge(A, Tail(B))
         ELSE << A[1] >> \o SortMerge(Tail(A), B)

\* =========================================================================
\* State
\* =========================================================================
VARIABLES
    args,               \* command line flags of the run (parse_args)
    todos,              \* Projects.get_todos(), in iteration order
    most_recent_lists,  \* ListsMaker.get_most_recent(listsdir, today)
    maker,              \* fields of the ListsMaker object, once constructed
    workdirs,           \* projects whose <listsdir>/<today>/<project>/ exists
    lists,              \* files of <listsdir>/<today>/<project>/, by suffix
    media,              \* the local media tree: project -> tree of records
    remote,             \* raw inventories the listing server has, by project
    pc,                 \* the statement the run is at
    exc,                \* the exception that ended the run, or "none"
    config,             \* the limits section: the two download caps
    syncer,             \* fields of the Sync object, once constructed
    dl,                 \* where Sync.get_new_media is in its loops
    journals,           \* the retrieved / get_failed journals, by project
    web,                \* the status the media server answers with, by file
    budget,             \* per fetch list: entries read, Fetcher calls made
    prior,              \* files of <listsdir>/<date>/<project>/ of the run before
    archive,            \* files of <archivedir>/deleted/<projecttype>/<langcode>/
    sites,              \* the site matrix, the whitelist and the Projects object
    inactive,           \* trees of the special sites, <archivedir>/<projecttype>/
    fetch,              \* a call of WebGetter.get_file or get_content
    clock,              \* the UTC date, and the date stamp each component holds
    dated,              \* the entries of <listsdir>: name -> project -> file names
    quiet               \* the inputs of the run, and how the same run ended without --verbose

syncvars == << config, syncer, dl, journals, web, budget >>

\* what the list generation and the downloader leave alone
more == << sites, inactive, fetch, clock, dated, quiet >>

\* the run and its lists, which a call of the WebGetter leaves alone
runvars == << args, todos, most_recent_lists, maker, workdirs, lists, media, remote,
              pc, exc, prior, archive >>

vars == << args, todos, most_recent_lists, maker, workdirs, lists,
           media, remote, pc, exc, config, syncer, dl, journals, web, budget,
           prior, archive, sites, inactive, fetch, clock, dated, quiet >>

ProjectOrder == << "enwiki", "elwiki", "dewiki" >>
Projects == { ProjectOrder[i] : i \in 1..Min(NumProjects, 3) }

\* the artifact names of a working directory, without the project prefix
Suffixes ==
    { "-local-media.gz", "-local-media-sorted.gz", "_local_media_sorted.gz",
      "-local-wikiqueries.gz", "-remote-wikiqueries.gz",
      "-uploads-sorted.gz", "-foreignrepo-sorted.gz",
      "-all-media-keep.gz", "-all-media-delete.gz",
      "-uploaded-toget.gz", "-foreignrepo-toget.gz",
      "-all-media-gone.gz", "-new-media-projectuploads.gz",
      "-new-media-foreignrepouploads.gz" }

EmptyDir == [s \in Suffixes |-> Absent]

\* the index as a dict  project -> date -> suffixes,  or whatever else the
\* caller passed in its place
Dict(d) == [kind |-> "dict", val |-> d]
Bool(b) == [kind |-> "bool", val |-> b]
NoObject == [kind |-> "none"]

\* a result of a method: the lists tree it leaves and the exception it raised
Ret(fs, e) == [lists |-> fs, exc |-> e]

\* ListsMaker.get_most_recent_file: the most recent date of the index on
\* which the project has the file, 0 for None.  "project in x" raises a
\* TypeError when x is not a container.
MaxOf(S) == CHOOSE d \in S : \A e \in S : e <= d

get_most_recent_file(project, filename, mrl) ==
    IF mrl.kind # "dict" THEN [date |-> 0, exc |-> "TypeError"]
    ELSE IF project \in DOMAIN mrl.val
         THEN LET dates == { d \in DOMAIN mrl.val[project] :
                                 filename \in mrl.val[project][d] }
              IN  [date |-> IF dates = {} THEN 0 ELSE MaxOf(dates), exc |-> "none"]
         ELSE [date |-> 0, exc |-> "none"]

\* "if self.full or not ListsMaker.get_most_recent_file(project,
\*  '-all-media-keep.gz', self.most_recent_lists)"
FullModeFor(mk, project) ==
    IF mk.full THEN [yes |-> TRUE, exc |-> "none"]
    ELSE LET r == get_most_recent_file(project, "-all-media-keep.gz",
                                       mk.most_recent_lists)
         IN  [yes |-> r.exc = "none" /\ r.date = 0, exc |-> r.exc]

\* gzip.open(path, "rb") of a list that is not there
OpenFails(fs, project, suffix) == ~fs[project][suffix].exists

WriteFile(fs, project, suffix, lines) ==
    [fs EXCEPT ![project][suffix] = File(lines)]

\* ListsMaker.list_uploaded_files_toget_for_project
list_uploaded_files_toget_for_project(mk, fs, project) ==
    IF mk.dryrun THEN Ret(fs, "none")
    ELSE IF OpenFails(fs, project, "_local_media_sorted.gz")
              \/ OpenFails(fs, project, "-uploads-sorted.gz")
         THEN Ret(fs, "FileNotFoundError")
         ELSE Ret(WriteFile(fs, project, "-uploaded-toget.gz",
                      DiffFetchUploaded(fs[project]["_local_media_sorted.gz"].lines,
                                        fs[project]["-uploads-sorted.gz"].lines)),
                  "none")

\* ListsMaker.generate_uploaded_files_to_get: the loop over the todo projects
RECURSIVE generate_uploaded_files_to_get(_, _, _, _)
generate_uploaded_files_to_get(mk, fs, td, i) ==
    IF i > Len(td) THEN Ret(fs, "none")
    ELSE LET fm == FullModeFor(mk, td[i]) IN
         IF fm.exc # "none" THEN Ret(fs, fm.exc)
         ELSE IF fm.yes
              THEN LET r == list_uploaded_files_toget_for_project(mk, fs, td[i]) IN
                   IF r.exc # "none" THEN r
                   ELSE generate_uploaded_files_to_get(mk, r.lists, td, i + 1)
              ELSE generate_uploaded_files_to_get(mk, fs, td, i + 1)

\* ListsMaker.list_foreignrepo_files_toget_for_project
list_foreignrepo_files_toget_for_project(mk, fs, project) ==
    IF mk.dryrun THEN Ret(fs, "none")
    ELSE IF OpenFails(fs, project, "_local_media_sorted.gz")
              \/ OpenFails(fs, project, "-foreignrepo-sorted.gz")
         THEN Ret(fs, "FileNotFoundError")
         ELSE Ret(WriteFile(fs, project, "-foreignrepo-toget.gz",
                      DiffFetchForeign(fs[project]["_local_media_sorted.gz"].lines,
                                       fs[project]["-foreignrepo-sorted.gz"].lines)),
                  "none")

\* ListsMaker.generate_foreignrepo_files_to_get
RECURSIVE generate_foreignrepo_files_to_get(_, _, _, _)
generate_foreignrepo_files_to_get(mk, fs, td, i) ==
    IF i > Len(td) THEN Ret(fs, "none")
    ELSE LET fm == FullModeFor(mk, td[i]) IN
         IF fm.exc # "none" THEN Ret(fs, fm.exc)
         ELSE IF fm.yes
              THEN LET r == list_foreignrepo_files_toget_for_project(mk, fs, td[i]) IN
                   IF r.exc # "none" THEN r
                   ELSE generate_foreignrepo_files_to_get(mk, r.lists, td, i + 1)
              ELSE generate_foreignrepo_files_to_get(mk, fs, td, i + 1)

\* ListsMaker.merge_media_files_to_keep.  The shell creates the output
\* before sort runs; a missing input makes gunzip write to stderr, sort
\* merges what is there, and the method returns at the first such project.
\* A missing working directory makes the redirection itself fail.
RECURSIVE merge_media_files_to_keep(_, _, _, _, _)
merge_media_files_to_keep(mk, fs, wd, td, i) ==
    IF i > Len(td) THEN Ret(fs, "none")
    ELSE LET fm == FullModeFor(mk, td[i]) IN
         IF fm.exc # "none" THEN Ret(fs, fm.exc)
         ELSE IF fm.yes
              THEN IF mk.dryrun
                   THEN merge_media_files_to_keep(mk, fs, wd, td, i + 1)
                   ELSE LET uploaded == fs[td[i]]["-uploads-sorted.gz"]
                            foreign == fs[td[i]]["-foreignrepo-sorted.gz"]
                            errors == ~uploaded.exists \/ ~foreign.exists
                                      \/ td[i] \notin wd
                            fs2 == IF td[i] \in wd
                                   THEN WriteFile(fs, td[i], "-all-media-keep.gz",
                                            SortMerge(uploaded.lines, foreign.lines))
                                   ELSE fs
                        IN  IF errors THEN Ret(fs2, "none")
                            ELSE merge_media_files_to_keep(mk, fs2, wd, td, i + 1)
              ELSE merge_media_files_to_keep(mk, fs, wd, td, i + 1)

\* ListsMaker.list_local_media_not_on_remote.  The "return" at the end of
\* the local list leaves the method, so do the "return" of the dry run.
RECURSIVE list_local_media_not_on_remote(_, _, _, _)
list_local_media_not_on_remote(mk, fs, td, i) ==
    IF i > Len(td) THEN Ret(fs, "none")
    ELSE LET fm == FullModeFor(mk, td[i]) IN
         IF fm.exc # "none" THEN Ret(fs, fm.exc)
         ELSE IF fm.yes
              THEN IF mk.dryrun THEN Ret(fs, "none")
                   ELSE IF OpenFails(fs, td[i], "-all-media-keep.gz")
                             \/ OpenFails(fs, td[i], "_local_media_sorted.gz")
                        THEN Ret(fs, "FileNotFoundError")
                        ELSE Ret(WriteFile(fs, td[i], "-all-media-delete.gz",
                                     DiffDelete(fs[td[i]]["-all-media-keep.gz"].lines,
                                                fs[td[i]]["_local_media_sorted.gz"].lines)),
                                 "none")
              ELSE list_local_media_not_on_remote(mk, fs, td, i + 1)

\* =========================================================================
\* ListsMaker.show_extra_entries and the lists of the changes since the run
\* before
\* =========================================================================

\* the bytes of a list file: every line with its newline
RECURSIVE Content(_)
Content(lines) ==
    IF lines = <<>> THEN <<>>
    ELSE LineBytes(Head(lines)) \o <<10>> \o Content(Tail(lines))

\* old_in.read() and today_in.read() return all that is left of the stream:
\* the whole file at the first call, b"" afterwards.  With the old stream's
\* bytes oldline and the other stream's bytes newline:
\*   - "if not oldline: return" on an empty old stream;
\*   - "while newline is None or newline < oldline" reads b"" for ever when
\*     the other stream's bytes are smaller;
\*   - "if newline is None or newline > oldline: output.write(newline)"
\*     writes the other stream whole when its bytes are greater;
\*   - the next old_in.read() returns b"" and the method returns.
\* The result is the lines written, and whether the call returns at all.
show_extra_entries_ge(old_in, today_in) ==
    LET oldline == Content(old_in)
        newline == Content(today_in)
    IN  IF oldline = <<>> THEN [lines |-> <<>>, returns |-> TRUE]
        ELSE IF LexLess(newline, oldline) THEN [lines |-> <<>>, returns |-> FALSE]
        ELSE [lines |-> today_in, returns |-> TRUE]
show_extra_entries(old_in, today_in) ==
    LET oldline == Content(old_in)
        newline == Content(today_in)
    IN  IF oldline = <<>> THEN [lines |-> <<>>, returns |-> TRUE]
        ELSE IF LexLess(newline, oldline) THEN [lines |-> <<>>, returns |-> FALSE]
        ELSE IF LexLess(oldline, newline) THEN [lines |-> today_in, returns |-> TRUE]
        ELSE [lines |-> <<>>, returns |-> TRUE]

\* ListsMaker.diff_lists: date is that of the run before, whose files are pr.
\* The output is created before the streams are compared.
diff_lists(mk, fs, pr, project, in_suffix, out_suffix, difftype) ==
    IF mk.dryrun THEN Ret(fs, "none")
    ELSE IF ~pr[project][in_suffix].exists \/ OpenFails(fs, project, in_suffix)
    THEN Ret(fs, "FileNotFoundError")
    ELSE LET old_in == pr[project][in_suffix].lines
             today_in == fs[project][in_suffix].lines
             r == IF difftype = "oldextra" THEN show_extra_entries(old_in, today_in)
                  ELSE show_extra_entries(today_in, old_in)
         IN  IF r.returns THEN Ret(WriteFile(fs, project, out_suffix, r.lines), "none")
             ELSE Ret(WriteFile(fs, project, out_suffix, <<>>), "never returns")

\* the loop of list_media_gone_from_remote, list_new_uploaded_media_on_remote
\* and list_new_foreign_media_on_remote over the todo projects
RECURSIVE diff_todos(_, _, _, _, _, _, _, _, _)
diff_todos(mk, mrl, fs, pr, td, i, in_suffix, out_suffix, difftype) ==
    IF i > Len(td) THEN Ret(fs, "none")
    ELSE LET d == get_most_recent_file(td[i], in_suffix, mrl) IN
         IF d.exc # "none" THEN Ret(fs, d.exc)
         ELSE IF d.date # 0
              THEN LET r == diff_lists(mk, fs, pr, td[i], in_suffix, out_suffix, difftype)
                   IN  IF r.exc # "none" THEN r
                       ELSE diff_todos(mk, mrl, r.lists, pr, td, i + 1,
                                       in_suffix, out_suffix, difftype)
              ELSE diff_todos(mk, mrl, fs, pr, td, i + 1, in_suffix, out_suffix,
                              difftype)

list_media_gone_from_remote(mk, mrl, fs, pr, td) ==
    diff_todos(mk, mrl, fs, pr, td, 1, "-all-media-keep.gz",
               "-all-media-gone.gz", "oldextra")

list_new_uploaded_media_on_remote(mk, mrl, fs, pr, td) ==
    diff_todos(mk, mrl, fs, pr, td, 1, "-uploads-sorted.gz",
               "-new-media-projectuploads.gz", "newextra")

list_new_foreign_media_on_remote(mk, mrl, fs, pr, td) ==
    diff_todos(mk, mrl, fs, pr, td, 1, "-foreignrepo-sorted.gz",
               "-new-media-foreignrepouploads.gz", "newextra")

\* =========================================================================
\* External sort pipelines
\* =========================================================================

\* a line of the local inventory as bytes: the fields joined by a space
RECURSIVE LocalLineBytes(_)
LocalLineBytes(rec) ==
    IF Len(rec) = 0 THEN <<>>
    ELSE IF Len(rec) = 1 THEN rec[1]
    ELSE rec[1] \o <<32>> \o LocalLineBytes(Tail(rec))

\* LC_ALL=C sort -k 1 of local inventory lines
RECURSIVE InsertLocal(_, _)
InsertLocal(rec, sorted) ==
    IF sorted = <<>> THEN << rec >>
    ELSE IF LexLess(LocalLineBytes(sorted[1]), LocalLineBytes(rec))
         THEN << sorted[1] >> \o InsertLocal(rec, Tail(sorted))
         ELSE << rec >> \o sorted

RECURSIVE SortLocal(_)
SortLocal(lines) ==
    IF lines = <<>> THEN <<>> ELSE InsertLocal(lines[1], SortLocal(Tail(lines)))

\* LC_ALL=C sort -k 1 of tab separated lines
RECURSIVE InsertLine(_, _)
InsertLine(rec, sorted) ==
    IF sorted = <<>> THEN << rec >>
    ELSE IF LexLess(LineBytes(sorted[1]), LineBytes(rec))
         THEN << sorted[1] >> \o InsertLine(rec, Tail(sorted))
         ELSE << rec >> \o sorted

RECURSIVE SortLines(_)
SortLines(lines) ==
    IF lines = <<>> THEN <<>> ELSE InsertLine(lines[1], SortLines(Tail(lines)))

\* uniq: drop a line equal to the line before it
RECURSIVE Uniq(_)
Uniq(lines) ==
    IF Len(lines) < 2 THEN lines
    ELSE IF lines[1] = lines[2] THEN Uniq(Tail(lines))
    ELSE << lines[1] >> \o Uniq(Tail(lines))

\* ListsMaker.remove_first_line_sort: zcat | tail -n +2 | sort | uniq | gzip
remove_first_line_sort(lines) ==
    Uniq(SortLines(IF lines = <<>> THEN <<>> ELSE Tail(lines)))

\* ListsMaker.cleanup_project_media_lists; the dry run returns at the first
\* project that has a raw list
RECURSIVE cleanup_project_media_lists(_, _, _, _, _, _)
cleanup_project_media_lists(mk, fs, td, i, in_suffix, out_suffix) ==
    IF i > Len(td) THEN Ret(fs, "none")
    ELSE IF ~fs[td[i]][in_suffix].exists
         THEN cleanup_project_media_lists(mk, fs, td, i + 1, in_suffix, out_suffix)
         ELSE IF mk.dryrun THEN Ret(fs, "none")
              ELSE cleanup_project_media_lists(mk,
                       WriteFile(fs, td[i], out_suffix,
                                 remove_first_line_sort(fs[td[i]][in_suffix].lines)),
                       td, i + 1, in_suffix, out_suffix)

\* =========================================================================
\* LocalFiles (sync/local.py)
\* =========================================================================
NoTree == [exists |-> FALSE, files |-> {}]
Tree(files) == [exists |-> TRUE, files |-> files]

\* LocalFiles.get_projects: the projects that have a directory in the tree
get_projects(md) == { p \in Projects : md[p].exists }

\* the todo projects found in the local tree, in iteration order
RECURSIVE LocalTodos(_, _, _)
LocalTodos(md, td, i) ==
    IF i > Len(td) THEN <<>>
    ELSE (IF td[i] \in get_projects(md) THEN << td[i] >> ELSE <<>>)
         \o LocalTodos(md, td, i + 1)

\* the orders in which os.walk may list a set of files
Orders(S) == { q \in [1..Cardinality(S) -> S] :
                   \A i, j \in 1..Cardinality(S) : i # j => q[i] # q[j] }

\* =========================================================================
\* ListsGetter (sync/listsgetter.py) and WebGetter.get_file without
\* return_on_fail
\* =========================================================================
NoList == [status |-> 404, lines |-> <<>>]
Served(lines) == [status |-> 200, lines |-> lines]

\* ListsGetter.get_project_remote_media for one template
RECURSIVE get_project_remote_media(_, _, _, _, _, _, _)
get_project_remote_media(dryrun, fs, wd, rm, td, i, suffix) ==
    IF i > Len(td) THEN Ret(fs, "none")
    ELSE IF rm[td[i]][suffix].status # 200 THEN Ret(fs, "HTTPError")
         ELSE IF dryrun
              THEN get_project_remote_media(dryrun, fs, wd, rm, td, i + 1, suffix)
              ELSE IF td[i] \notin wd THEN Ret(fs, "FileNotFoundError")
                   ELSE get_project_remote_media(dryrun,
                            WriteFile(fs, td[i], suffix, rm[td[i]][suffix].lines),
                            wd, rm, td, i + 1, suffix)

\* =========================================================================
\* The run: do_main and the phases it calls (sync_mw_media.py)
\* =========================================================================

\* a method returned or raised: an exception ends the run where it is
Finish(r, nextpc) ==
    /\ lists' = r.lists
    /\ exc' = r.exc
    /\ pc' = IF r.exc = "none" THEN nextpc ELSE pc

\* do_continue_downloads: Sync(config, projects, today, verbose, dryrun) is
\* one positional argument more than Sync.__init__ takes
DoContinueDownloads ==
    /\ pc = "continue_downloads" /\ exc = "none"
    /\ exc' = "TypeError"
    /\ UNCHANGED syncvars
    /\ UNCHANGED << more, prior, archive, args, todos, most_recent_lists, maker, workdirs, lists,
                    media, remote, pc >>

\* LocalFiles.init_mediadirs
InitMediadirs ==
    /\ pc = "init_mediadirs" /\ exc = "none"
    /\ media' = [p \in Projects |->
                    IF p \in { todos[i] : i \in 1..Len(todos) } /\ ~args.dryrun
                       /\ ~media[p].exists
                    THEN Tree({}) ELSE media[p]]
    /\ pc' = "get_local_media_lists"
    /\ UNCHANGED syncvars
    /\ UNCHANGED << more, prior, archive, args, todos, most_recent_lists, maker, workdirs, lists,
                    remote, exc >>

\* LocalFiles.get_local_media_lists with record_local_media_for_project:
\* the working directory is made before the dry-run test
GetLocalMediaLists ==
    /\ pc = "get_local_media_lists" /\ exc = "none"
    /\ LET local == LocalTodos(media, todos, 1)
           doing == { p \in { local[i] : i \in 1..Len(local) } :
                        args.full \/ get_most_recent_file(p, "-all-media-keep.gz",
                                         Dict(most_recent_lists)).date = 0 }
       IN  /\ workdirs' = workdirs \cup doing
           /\ \E walk \in [Projects -> UNION { Orders(media[p].files) : p \in Projects }] :
                /\ \A p \in Projects : walk[p] \in Orders(media[p].files)
                /\ lists' = [p \in Projects |->
                                IF p \in doing /\ ~args.dryrun
                                THEN [lists[p] EXCEPT !["-local-media.gz"] = File(walk[p])]
                                ELSE lists[p]]
    /\ pc' = "sort_local_media_lists"
    /\ UNCHANGED syncvars
    /\ UNCHANGED << more, prior, archive, args, todos, most_recent_lists, maker, media, remote, exc >>

\* LocalFiles.sort_local_media_for_project
sort_local_media_for_project(fs, wd, project) ==
    IF ~fs[project]["-local-media.gz"].exists /\ (args.dryrun \/ args.verbose)
    THEN fs
    ELSE IF args.dryrun \/ project \notin wd THEN fs
         ELSE WriteFile(fs, project, "-local-media-sorted.gz",
                        SortLocal(fs[project]["-local-media.gz"].lines))

RECURSIVE sort_local_media_lists(_, _, _, _)
sort_local_media_lists(fs, wd, local, i) ==
    IF i > Len(local) THEN fs
    ELSE sort_local_media_lists(sort_local_media_for_project(fs, wd, local[i]),
                                wd, local, i + 1)

\* LocalFiles.sort_local_media_lists
SortLocalMediaLists ==
    /\ pc = "sort_local_media_lists" /\ exc = "none"
    /\ lists' = sort_local_media_lists(lists, workdirs, LocalTodos(media, todos, 1), 1)
    /\ pc' = "get_uploaded_media"
    /\ UNCHANGED syncvars
    /\ UNCHANGED << more, prior, archive, args, todos, most_recent_lists, maker, workdirs, media,
                    remote, exc >>

\* ListsGetter.get_project_uploaded_media
GetProjectUploadedMedia ==
    /\ pc = "get_uploaded_media" /\ exc = "none"
    /\ Finish(get_project_remote_media(args.dryrun, lists, workdirs, remote, todos, 1,
                                       "-local-wikiqueries.gz"),
              "get_foreignrepo_media")
    /\ UNCHANGED syncvars
    /\ UNCHANGED << more, prior, archive, args, todos, most_recent_lists, maker, workdirs,
                    media, remote >>

\* ListsGetter.get_project_foreignrepo_media, the end of do_lists_retrieval
GetProjectForeignrepoMedia ==
    /\ pc = "get_foreignrepo_media" /\ exc = "none"
    /\ Finish(get_project_remote_media(args.dryrun, lists, workdirs, remote, todos, 1,
                                       "-remote-wikiqueries.gz"),
              IF args.full THEN "lists_generation" ELSE "incr_lists_generation")
    /\ UNCHANGED syncvars
    /\ UNCHANGED << more, prior, archive, args, todos, most_recent_lists, maker, workdirs,
                    media, remote >>

\* do_lists_generation: ListsMaker(config, projects, today, args['full'],
\* args['verbose'], args['dryrun']) binds the flags one parameter early
ConstructListsMaker ==
    /\ pc = "lists_generation" /\ exc = "none"
    /\ maker' = [most_recent_lists |-> Bool(args.full), full |-> args.verbose,
                 verbose |-> args.dryrun, dryrun |-> FALSE]
    /\ pc' = "gen_cleanup_uploaded"
    /\ UNCHANGED syncvars
    /\ UNCHANGED << more, prior, archive, args, todos, most_recent_lists, workdirs, lists, media,
                    remote, exc >>

\* do_incr_lists_generation: ListsMaker(config, projects, today,
\* most_recent_lists, args['full'], args['verbose'], args['dryrun'])
ConstructListsMakerIncr ==
    /\ pc = "incr_lists_generation" /\ exc = "none"
    /\ maker' = [most_recent_lists |-> Dict(most_recent_lists), full |-> args.full,
                 verbose |-> args.verbose, dryrun |-> args.dryrun]
    /\ pc' = "incr_cleanup_uploaded"
    /\ UNCHANGED syncvars
    /\ UNCHANGED << more, prior, archive, args, todos, most_recent_lists, workdirs, lists, media,
                    remote, exc >>

\* ListsMaker.cleanup_project_uploaded_media_lists
CleanupUploaded(at, nextpc) ==
    /\ pc = at /\ exc = "none"
    /\ Finish(cleanup_project_media_lists(maker, lists, todos, 1,
                  "-local-wikiqueries.gz", "-uploads-sorted.gz"), nextpc)
    /\ UNCHANGED syncvars
    /\ UNCHANGED << more, prior, archive, args, todos, most_recent_lists, maker, workdirs,
                    media, remote >>

\* ListsMaker.cleanup_project_foreignrepo_media_lists
CleanupForeignrepo(at, nextpc) ==
    /\ pc = at /\ exc = "none"
    /\ Finish(cleanup_project_media_lists(maker, lists, todos, 1,
                  "-remote-wikiqueries.gz", "-foreignrepo-sorted.gz"), nextpc)
    /\ UNCHANGED syncvars
    /\ UNCHANGED << more, prior, archive, args, todos, most_recent_lists, maker, workdirs,
                    media, remote >>

\* do_lists_generation: generate_uploaded_files_to_get() is in the body of
\* "if args['verbose']"
GenerateUploadedFilesToGet ==
    /\ pc = "gen_uploaded_toget" /\ exc = "none"
    /\ Finish(IF args.verbose
              THEN generate_uploaded_files_to_get(maker, lists, todos, 1)
              ELSE Ret(lists, "none"),
              "gen_foreignrepo_toget")
    /\ UNCHANGED syncvars
    /\ UNCHANGED << more, prior, archive, args, todos, most_recent_lists, maker, workdirs,
                    media, remote >>

\* ListsMaker.generate_foreignrepo_files_to_get
GenerateForeignrepoFilesToGet ==
    /\ pc = "gen_foreignrepo_toget" /\ exc = "none"
    /\ Finish(generate_foreignrepo_files_to_get(maker, lists, todos, 1),
              "gen_merge_keep")
    /\ UNCHANGED syncvars
    /\ UNCHANGED << more, prior, archive, args, todos, most_recent_lists, maker, workdirs,
                    media, remote >>

\* ListsMaker.merge_media_files_to_keep
MergeMediaFilesToKeep(at, nextpc) ==
    /\ pc = at /\ exc = "none"
    /\ Finish(merge_media_files_to_keep(maker, lists, workdirs, todos, 1), nextpc)
    /\ UNCHANGED syncvars
    /\ UNCHANGED << more, prior, archive, args, todos, most_recent_lists, maker, workdirs,
                    media, remote >>

\* ListsMaker.list_local_media_not_on_remote, the end of do_lists_generation
ListLocalMediaNotOnRemote ==
    /\ pc = "gen_local_not_on_remote" /\ exc = "none"
    /\ Finish(list_local_media_not_on_remote(maker, lists, todos, 1), "sync")
    /\ UNCHANGED syncvars
    /\ UNCHANGED << more, prior, archive, args, todos, most_recent_lists, maker, workdirs,
                    media, remote >>

\* do_incr_lists_generation: maker.update_local_media_lists(most_recent_lists);
\* ListsMaker has no such method
UpdateLocalMediaLists ==
    /\ pc = "incr_update_local" /\ exc = "none"
    /\ exc' = "AttributeError"
    /\ UNCHANGED syncvars
    /\ UNCHANGED << more, prior, archive, args, todos, most_recent_lists, maker, workdirs, lists,
                    media, remote, pc >>

\* ListsMaker.list_media_gone_from_remote(most_recent_lists)
ListMediaGoneFromRemote ==
    /\ pc = "incr_gone" /\ exc = "none"
    /\ Finish(list_media_gone_from_remote(maker, Dict(most_recent_lists), lists,
                                          prior, todos), "incr_new_uploaded")
    /\ UNCHANGED syncvars
    /\ UNCHANGED << more, prior, archive, args, todos, most_recent_lists, maker, workdirs,
                    media, remote >>

\* ListsMaker.list_new_uploaded_media_on_remote(most_recent_lists)
ListNewUploadedMediaOnRemote ==
    /\ pc = "incr_new_uploaded" /\ exc = "none"
    /\ Finish(list_new_uploaded_media_on_remote(maker, Dict(most_recent_lists), lists,
                                                prior, todos), "incr_new_foreign")
    /\ UNCHANGED syncvars
    /\ UNCHANGED << more, prior, archive, args, todos, most_recent_lists, maker, workdirs,
                    media, remote >>

\* ListsMaker.list_new_foreign_media_on_remote(most_recent_lists), the end of
\* do_incr_lists_generation
ListNewForeignMediaOnRemote ==
    /\ pc = "incr_new_foreign" /\ exc = "none"
    /\ Finish(list_new_foreign_media_on_remote(maker, Dict(most_recent_lists), lists,
                                               prior, todos), "sync")
    /\ UNCHANGED syncvars
    /\ UNCHANGED << more, prior, archive, args, todos, most_recent_lists, maker, workdirs,
                    media, remote >>

\* =========================================================================
\* Sync (sync/sync.py): the bounded downloader
\* =========================================================================

\* Sync.EXTS, as byte strings
EXTS ==
    << <<97, 105>>,
       <<97, 105, 102>>,
       <<97, 105, 102, 102>>,
       <<97, 118, 105>>,
       <<100, 105, 97>>,
       <<100, 106, 118, 117>>,
       <<100, 111, 99>>,
       <<100, 118>>,
       <<101, 112, 115>>,
       <<103, 105, 102>>,
       <<105, 110, 100, 100>>,
       <<105, 110, 120>>,
       <<106, 112, 103>>,
       <<106, 112, 101, 103>>,
       <<109, 105, 100>>,
       <<109, 111, 118>>,
       <<111, 100, 103>>,
       <<111, 100, 112>>,
       <<111, 100, 115>>,
       <<111, 100, 116>>,
       <<111, 103, 103>>,
       <<111, 103, 118>>,
       <<111, 109, 110, 105, 112, 108, 97, 110>>,
       <<111, 116, 102>>,
       <<111, 116, 116>>,
       <<112, 100, 102>>,
       <<112, 110, 103>>,
       <<112, 112, 100>>,
       <<112, 112, 116>>,
       <<112, 115, 100>>,
       <<115, 116, 108>>,
       <<115, 118, 103>>,
       <<119, 102, 102, 50>>,
       <<119, 101, 98, 112>>,
       <<119, 109, 118>>,
       <<119, 111, 102, 102>>,
       <<120, 99, 102>>,
       <<120, 109, 108>>,
       <<122, 105, 112>> >>

\* python: s.endswith(suffix)
EndsWith(s, suffix) ==
    /\ Len(suffix) <= Len(s)
    /\ \A k \in 1..Len(suffix) : s[Len(s) - Len(suffix) + k] = suffix[k]

\* Sync.is_sane_mediafilename; '/' is also os.path.sep
is_sane_mediafilename_any_path(filename) ==
    \E e \in 1..Len(EXTS) : EndsWith(filename, <<46>> \o EXTS[e])
is_sane_mediafilename(filename) ==
    IF \E k \in 1..Len(filename) : filename[k] = 47 THEN FALSE
    ELSE \E e \in 1..Len(EXTS) : EndsWith(filename, <<46>> \o EXTS[e])

RepoTypes == { "local", "foreignrepo" }

\* the three files Sync.get_new_media names for a repotype
TogetSuffix(rt) ==
    IF rt = "local" THEN "-uploaded-toget.gz" ELSE "-foreignrepo-toget.gz"
RetrievedSuffix(rt) ==
    IF rt = "local" THEN "_local_retrieved.gz" ELSE "_foreignrepo-retrieved.gz"
FailedSuffix(rt) ==
    IF rt = "local" THEN "_local_get_failed.gz" ELSE "_foreignrepo_get_failed.gz"

JournalSuffixes == { "_local_retrieved.gz", "_local_get_failed.gz",
                     "_foreignrepo-retrieved.gz", "_foreignrepo_get_failed.gz" }

\* max_local_gets / max_foreignrepo_gets of Sync.get_new_media
MaxGets(rt) ==
    IF rt = "local" THEN config.max_uploaded_gets ELSE config.max_foreignrepo_gets

\* Sync.get_media_download_url: the base url and the project it names
get_media_download_url(file_toget, project, upload_type) ==
    IF upload_type = "local"
    THEN [base |-> "uploaded_media_url", project |-> project, file |-> file_toget]
    ELSE [base |-> "foreignrepo_media_url", project |-> "", file |-> file_toget]

\* the status codes a download ends with; 200 is success
Statuses == { 200, 404, 500 }

\* the loops of get_new_media start over at the next list
Rewind(i, rt, j) ==
    [i |-> i, rt |-> rt, j |-> j, open |-> FALSE, gets |-> 0, pos |-> 0,
     notfound |-> 0, rejected |-> 0]

\* after the inner project j of get_new_media_from_list: the next inner
\* project, else the next repotype of get_new_media, else its next project
AfterProject(d) ==
    IF d.j < Len(todos) THEN Rewind(d.i, d.rt, d.j + 1)
    ELSE IF d.rt = "local" THEN Rewind(d.i, "foreignrepo", 1)
    ELSE Rewind(d.i + 1, "local", 1)

\* after get_new_media_from_list returned without visiting its projects
AfterList(d) ==
    IF d.rt = "local" THEN Rewind(d.i, "foreignrepo", 1)
    ELSE Rewind(d.i + 1, "local", 1)

PcAfter(d) == IF d.i > Len(todos) THEN "synced" ELSE "get_new_media"

\* Sync.get_new_media_from_list, up to the three gzip.open calls: the lists
\* are those of the project of the outer loop of get_new_media, the journals
\* are opened "wb"
OpenLists ==
    /\ pc = "get_new_media" /\ exc = "none" /\ ~dl.open
    /\ IF syncer.todo = "None"
       THEN /\ exc' = "TypeError"
            /\ UNCHANGED << dl, journals, pc >>
       ELSE IF syncer.dryrun
       THEN /\ dl' = AfterList(dl)
            /\ pc' = PcAfter(dl')
            /\ UNCHANGED << exc, journals >>
       ELSE IF ~lists[todos[dl.i]][TogetSuffix(dl.rt)].exists
       THEN /\ exc' = "FileNotFoundError"
            /\ UNCHANGED << dl, journals, pc >>
       ELSE /\ dl' = [dl EXCEPT !.open = TRUE]
            /\ journals' = [journals EXCEPT
                   ![todos[dl.i]][RetrievedSuffix(dl.rt)] = File(<<>>),
                   ![todos[dl.i]][FailedSuffix(dl.rt)] = File(<<>>)]
            /\ UNCHANGED << exc, pc >>
    /\ UNCHANGED << more, prior, archive, args, todos, most_recent_lists, maker, workdirs, lists,
                    media, remote, config, syncer, web, budget >>

\* the status WebGetter.get_file ends with for a file: what the server has
\* for it, 404 for a file the server does not have
StatusOf(name) == IF name \in DOMAIN web THEN web[name] ELSE 404

\* what WebGetter.get_file(..., return_on_fail=True) returns when the
\* download ended with the status: None, written 0, after it stored the file,
\* the status code of the last response otherwise
get_file_dryrun(status_code) == status_code
get_file(status_code) == IF status_code = 200 THEN 0 ELSE status_code

\* a journal is a sequence of lines, a line a sequence of records.
\* fail_out.write("'{filename}' [{code}] {url}\n"): the record is a line
WriteLine(lines, record) == Append(lines, << record >>)
\* retr_out.write("'{filename}' {url}"): no newline, so the next record
\* goes on the same line
WriteUnterminated(lines, record) ==
    IF lines = <<>> THEN << << record >> >>
    ELSE [lines EXCEPT ![Len(lines)] = Append(@, record)]

\* a file stored by WebGetter.get_file under the project's media directory
Stored(tree, name) ==
    Tree({ f \in tree.files : f[1] # name }
         \cup { << name, TimeOf(NumTimes), DirOf(name) >> })

\* one pass of the "while gets < maxgets" loop of get_new_media_for_project
\* that reads an entry; the Fetcher ends with the status the server has for
\* the file
GetOne ==
    /\ pc = "get_new_media" /\ exc = "none" /\ dl.open
    /\ dl.gets < MaxGets(dl.rt)
    /\ dl.pos < Len(lists[todos[dl.i]][TogetSuffix(dl.rt)].lines)
    /\ LET listproject == todos[dl.i]
           project == todos[dl.j]
           toget == LineBytes(lists[listproject][TogetSuffix(dl.rt)].lines[dl.pos + 1])
           url == get_media_download_url(toget, project, dl.rt)
       IN  IF ~is_sane_mediafilename(toget)
           THEN /\ dl' = [dl EXCEPT !.gets = @ + 1, !.pos = @ + 1, !.rejected = @ + 1]
                /\ budget' = [budget EXCEPT ![listproject][dl.rt].read = @ + 1]
                /\ UNCHANGED << journals, media >>
           ELSE LET status_code == StatusOf(toget)
                    resp_code == get_file(status_code)
                IN
                /\ dl' = [dl EXCEPT !.gets = @ + 1, !.pos = @ + 1,
                                    !.notfound = @ + (IF status_code = 404 THEN 1 ELSE 0)]
                /\ budget' = [budget EXCEPT ![listproject][dl.rt].read = @ + 1,
                                            ![listproject][dl.rt].fetched = @ + 1,
                                            ![listproject][dl.rt].asked = @ \cup {toget}]
                /\ media' = IF status_code = 200
                            THEN [media EXCEPT ![project] = Stored(@, toget)]
                            ELSE media
                /\ IF resp_code = 0
                   THEN journals' = [journals EXCEPT
                               ![listproject][RetrievedSuffix(dl.rt)].lines =
                                   WriteUnterminated(@, [file |-> toget, code |-> 0,
                                                         url |-> url])]
                   ELSE journals' = [journals EXCEPT
                               ![listproject][FailedSuffix(dl.rt)].lines =
                                   WriteLine(@, [file |-> toget, code |-> resp_code,
                                                 url |-> url])]
    /\ UNCHANGED << more, prior, archive, args, todos, most_recent_lists, maker, workdirs, lists,
                    remote, pc, exc, config, syncer, web >>

\* get_new_media_for_project returns: the budget is used up, or readline()
\* gave the end of the list
EndOfProject ==
    /\ pc = "get_new_media" /\ exc = "none" /\ dl.open
    /\ \/ dl.gets >= MaxGets(dl.rt)
       \/ dl.pos >= Len(lists[todos[dl.i]][TogetSuffix(dl.rt)].lines)
    /\ dl' = AfterProject(dl)
    /\ pc' = PcAfter(dl')
    /\ UNCHANGED << more, prior, archive, args, todos, most_recent_lists, maker, workdirs, lists,
                    media, remote, exc, config, syncer, journals, web, budget >>

\* the loop over the lines of a delete list: shutil.move of the file of the
\* line from the project's media directory to the archive, over what is
\* there under that name; a file that is not there ends the loop with an
\* exception
RECURSIVE move_deletes(_, _, _, _)
move_deletes(tree, deleted, deletes, n) ==
    IF n > Len(deletes) THEN [tree |-> tree, deleted |-> deleted, exc |-> "none"]
    ELSE LET filename == deletes[n][1]
             old_path == { f \in tree.files : f[1] = filename }
         IN  IF old_path = {}
             THEN [tree |-> tree, deleted |-> deleted, exc |-> "FileNotFoundError"]
             ELSE move_deletes([tree EXCEPT !.files = @ \ old_path],
                               { a \in deleted : a[1] # filename } \cup old_path,
                               deletes, n + 1)

\* Sync.delete_local_media_not_on_remote: "project in self.projects.todo"
\* raises when todo is None; the dry run returns at the first todo project;
\* "if not delete_line: return" at the end of the delete list of the first
\* todo project leaves the method, not the loop
delete_local_media_not_on_remote(sy, fs, md, ar, td) ==
    IF sy.todo = "None" THEN [media |-> md, archive |-> ar, exc |-> "TypeError"]
    ELSE IF sy.dryrun THEN [media |-> md, archive |-> ar, exc |-> "none"]
    ELSE IF OpenFails(fs, td[1], "-all-media-delete.gz")
    THEN [media |-> md, archive |-> ar, exc |-> "FileNotFoundError"]
    ELSE LET r == move_deletes(md[td[1]], ar[td[1]],
                               fs[td[1]]["-all-media-delete.gz"].lines, 1)
         IN  [media |-> [md EXCEPT ![td[1]] = r.tree],
              archive |-> [ar EXCEPT ![td[1]] = r.deleted],
              exc |-> r.exc]

\* do_sync: syncer.delete_local_media_not_on_remote()
DeleteLocalMediaNotOnRemote ==
    /\ pc = "delete_local_media" /\ exc = "none"
    /\ LET r == delete_local_media_not_on_remote(syncer, lists, media, archive, todos)
       IN  /\ media' = r.media
           /\ archive' = r.archive
           /\ exc' = r.exc
           /\ pc' = IF r.exc = "none" THEN "get_new_media" ELSE pc
    /\ UNCHANGED << more, prior, args, todos, most_recent_lists, maker, workdirs, lists,
                    remote, config, syncer, dl, journals, web, budget >>

\* =========================================================================
\* Projects (sync/projects.py) and LocalFiles.archive_inactive_projects
\* (sync/local.py)
\* =========================================================================

\* the sites of the model's site matrix: the regular sites are Projects, one
\* per language group, and the "specials" group has two
SpecialSites == { "commonswiki", "metawiki" }
SiteOrder == << "enwiki", "elwiki", "dewiki", "commonswiki", "metawiki" >>

\* regular_site['code'] of the group of a regular site, site['code'] of a
\* special one
LangCode(d) ==
    CASE d = "enwiki" -> "en" [] d = "elwiki" -> "el" [] d = "dewiki" -> "de"
      [] d = "commonswiki" -> "commons" [] d = "metawiki" -> "meta"

\* site['url'] split at its dots: "https://en.wikipedia.org"
UrlOf(d) == << "https://" \o LangCode(d), "wikipedia", "org" >>

\* Projects.get_projecttype_from_url: url.rsplit('.', 2)[1]
get_projecttype_from_url(url) == url[Len(url) - 1]

\* "if not todo or site['dbname'] in todo"
MarkedTodo(d, todo) == todo = {} \/ d \in todo

\* Projects.process_special_sites, the entry of one site that is not
\* private: the project type is asked from the api for a todo site only;
\* api[d] is what get_projecttype_from_api returns, "None" for None
process_special_sites(d, api, todo) ==
    IF MarkedTodo(d, todo)
    THEN [langcode |-> LangCode(d), todo |-> TRUE, projecttype |-> api[d]]
    ELSE [langcode |-> LangCode(d), todo |-> FALSE, projecttype |-> "missing"]

\* Projects.process_regular_site, the entry of one site
process_regular_site(d, todo) ==
    [langcode |-> LangCode(d), todo |-> MarkedTodo(d, todo),
     projecttype |-> get_projecttype_from_url(UrlOf(d))]

\* Projects.get_active_projects: the dict dbname -> entry; a missing 'todo'
\* key is todo = FALSE, a missing 'projecttype' key is "missing"
get_active_projects(matrix, private, api, todo) ==
    [d \in { s \in matrix : s \notin SpecialSites \/ s \notin private } |->
        IF d \in SpecialSites THEN process_special_sites(d, api, todo)
        ELSE process_regular_site(d, todo)]

\* Projects.exclude_foreign_repo
exclude_foreign_repo(foreignrepo, active_projects) ==
    IF foreignrepo # "" /\ foreignrepo \in DOMAIN active_projects
    THEN [d \in DOMAIN active_projects \ { foreignrepo } |-> active_projects[d]]
    ELSE active_projects

\* Projects.get_active_projects_by_projecttype_langcode: the pairs of
\* "projecttype/langcode" and dbname; None + '/' is a TypeError
get_active_projects_by_projecttype_langcode(active) ==
    IF \E d \in DOMAIN active : active[d].projecttype = "None"
    THEN [exc |-> "TypeError", names |-> {}]
    ELSE [exc |-> "none",
          names |-> { << active[d].projecttype \o "/" \o active[d].langcode, d >> :
                        d \in { e \in DOMAIN active : active[e].projecttype # "missing" } }]

\* the lookup finds no project
get_projectname_unknown(names, key) == key

\* Projects.get_projectname_from_type_langcode
get_projectname_from_type_langcode(names, key) ==
    IF \E n \in names : n[1] = key
    THEN (CHOOSE n \in names : n[1] = key)[2]
    ELSE key

\* Projects.is_active: "not bool('/' in project)"
is_active(project) == ~\E i \in 1..Len(project) : SubSeq(project, i, i) = "/"

\* Projects.get_projecttype_langcode: project.split('/') unpacked into two
\* names, else the entry of the active project; a dbname that is not active
\* leaves both names unbound
get_projecttype_langcode(active, project) ==
    LET slashes == { i \in 1..Len(project) : SubSeq(project, i, i) = "/" } IN
    IF slashes # {}
    THEN IF Cardinality(slashes) = 1
         THEN LET i == CHOOSE j \in slashes : TRUE
              IN  [exc |-> "none", projecttype |-> SubSeq(project, 1, i - 1),
                   langcode |-> SubSeq(project, i + 1, Len(project))]
         ELSE [exc |-> "ValueError", projecttype |-> "", langcode |-> ""]
    ELSE IF project \in DOMAIN active
         THEN IF active[project].projecttype = "missing"
              THEN [exc |-> "KeyError", projecttype |-> "", langcode |-> ""]
              ELSE [exc |-> "none", projecttype |-> active[project].projecttype,
                    langcode |-> active[project].langcode]
         ELSE [exc |-> "UnboundLocalError", projecttype |-> "", langcode |-> ""]

\* the projects of a set in the order of the dict
RECURSIVE InSiteOrder(_, _)
InSiteOrder(S, i) ==
    IF i > Len(SiteOrder) THEN <<>>
    ELSE (IF SiteOrder[i] \in S THEN << SiteOrder[i] >> ELSE <<>>)
         \o InSiteOrder(S, i + 1)

\* Projects.get_todos
get_todos(active) ==
    LET todo == { d \in DOMAIN active : active[d].todo }
    IN  IF todo = {} THEN InSiteOrder(DOMAIN active, 1) ELSE InSiteOrder(todo, 1)

\* Projects.fill_in_projecttypes, the entries after its loop
fill_in_projecttypes(matrix, api, active) ==
    [d \in DOMAIN active |->
        IF d \in SpecialSites /\ d \in matrix
        THEN [active[d] EXCEPT !.projecttype = api[d]]
        ELSE active[d]]

\* Projects.__init__ and the get_todos() of the run
ConstructProjects ==
    /\ pc = "projects" /\ exc = "none"
    /\ LET active == exclude_foreign_repo(sites.foreignrepo,
                         get_active_projects(sites.matrix, sites.private, sites.api,
                                             sites.whitelist))
           byname == get_active_projects_by_projecttype_langcode(active)
       IN  IF byname.exc # "none"
           THEN /\ exc' = byname.exc
                /\ UNCHANGED << sites, todos, pc >>
           ELSE /\ sites' = [sites EXCEPT !.active = active, !.names = byname.names]
                /\ todos' = get_todos(active)
                /\ pc' = "archive_inactive"
                /\ exc' = "none"
    /\ UNCHANGED syncvars
    /\ UNCHANGED << quiet, fetch, clock, dated, inactive, prior, archive, args,
                    most_recent_lists, maker, workdirs, lists, media, remote >>

\* the directory <projecttype>/<langcode> a site is mirrored in
DirKey(d) == get_projecttype_from_url(UrlOf(d)) \o "/" \o LangCode(d)

\* the tree at <mediadir>/<projecttype>/<langcode>
TreeAt(md, sp, d) == IF d \in Projects THEN md[d] ELSE sp[d]

\* LocalFiles.get_projects of local.py: the directories of the tree, each
\* under the name Projects.get_projectname_from_type_langcode gives it
local_get_projects(names, md, sp) ==
    { << d, get_projectname_from_type_langcode(names, DirKey(d)) >> :
        d \in { e \in Projects \cup SpecialSites : TreeAt(md, sp, e).exists } }

\* LocalFiles.project_is_empty: no hash directory holds a file
project_is_empty(tree) == tree.files = {}

\* every tree that holds media is archived
ArchiveCondAny(active, name, tree) == ~project_is_empty(tree)

\* "if project not in self.projects.active and not self.project_is_empty(project)"
ArchiveCond(active, name, tree) == name \notin DOMAIN active /\ ~project_is_empty(tree)

\* the target <archivedir>/<projecttype>/<langcode>.<now> of archive_project
ArchiveTarget(d, now) == << DirKey(d), now >>

\* shutil.move(src, dst): dst that is a directory takes src inside it under
\* the name of src, and the move fails when that name is taken too
MoveFails(archived, target) ==
    target \in DOMAIN archived /\ archived[target].inner.exists

shutil_move(archived, target, tree) ==
    IF target \in DOMAIN archived
    THEN [archived EXCEPT ![target].inner = tree]
    ELSE [t \in DOMAIN archived \cup { target } |->
             IF t = target THEN [files |-> tree.files, inner |-> NoTree]
             ELSE archived[t]]

\* the moves of a set of directories, each to its own target
RECURSIVE move_all(_, _, _, _, _)
move_all(archived, md, sp, D, now) ==
    IF D = {} THEN archived
    ELSE LET d == CHOOSE e \in D : TRUE
         IN  move_all(shutil_move(archived, ArchiveTarget(d, now), TreeAt(md, sp, d)),
                      md, sp, D \ { d }, now)

\* LocalFiles.archive_inactive_projects.  os.listdir gives the directories
\* in any order: when a move fails, the directories listed before it are
\* moved and the others are not.  archive_project makes <archivedir> before
\* it looks at the dry-run flag.
ArchiveInactiveProjects ==
    /\ pc = "archive_inactive" /\ exc = "none"
    /\ LET active == fill_in_projecttypes(sites.matrix, sites.api, sites.active)
           byname == get_active_projects_by_projecttype_langcode(active)
           found == local_get_projects(byname.names, media, inactive.trees)
           doing == { f[1] : f \in { g \in found :
                          ArchiveCond(active, g[2], TreeAt(media, inactive.trees, g[1])) } }
           failing == { d \in doing :
                          MoveFails(inactive.archived, ArchiveTarget(d, inactive.now)) }
       IN  IF byname.exc # "none"
           THEN /\ exc' = byname.exc
                /\ sites' = [sites EXCEPT !.active = active]
                /\ UNCHANGED << inactive, media, pc >>
           ELSE /\ sites' = [sites EXCEPT !.active = active, !.names = byname.names]
                /\ IF args.dryrun
                   THEN /\ inactive' = [inactive EXCEPT !.root = @ \/ doing # {}]
                        /\ media' = media
                        /\ exc' = "none"
                        /\ pc' = "archived"
                   ELSE \E moved \in (IF failing = {} THEN { doing }
                                       ELSE SUBSET (doing \ failing)) :
                          /\ inactive' =
                               [inactive EXCEPT
                                  !.root = @ \/ doing # {},
                                  !.trees = [d \in SpecialSites |->
                                                IF d \in moved THEN NoTree ELSE @[d]],
                                  !.archived = move_all(@, media, inactive.trees, moved,
                                                        inactive.now)]
                          /\ media' = [p \in Projects |->
                                          IF p \in moved THEN NoTree ELSE media[p]]
                          /\ exc' = IF failing = {} THEN "none" ELSE "shutil.Error"
                          /\ pc' = IF failing = {} THEN "archived" ELSE pc
    /\ UNCHANGED syncvars
    /\ UNCHANGED << quiet, fetch, clock, dated, prior, archive, args, todos,
                    most_recent_lists,
                    maker, workdirs, lists, remote >>

\* =========================================================================
\* WebGetter (sync/webgetter.py)
\* =========================================================================

\* no call of the WebGetter is under way
NoFetch ==
    [method |-> "none", return_on_fail |-> FALSE, dryrun |-> FALSE, http_retries |-> 0,
     answers |-> << >>, retried |-> 0, asked |-> 0, slept |-> 0, done |-> FALSE,
     at |-> "idle", code |-> 0, body |-> 0, raised |-> "none", errcode |-> 0,
     dest |-> "absent"]

\* one turn of "while not done and retried < self.config['http_retries']":
\* the request, and the sleep after an answer that is not 200
Attempt ==
    /\ fetch.at = "loop"
    /\ ~fetch.done /\ fetch.retried < fetch.http_retries
    /\ LET status_code == fetch.answers[fetch.asked + 1]
       IN  fetch' = [fetch EXCEPT
                        !.asked = @ + 1,
                        !.done = status_code = 200,
                        !.retried = IF status_code = 200 THEN @ ELSE @ + 1,
                        !.slept = IF status_code = 200 THEN @ ELSE @ + 1]
    /\ UNCHANGED << runvars, syncvars, sites, inactive, quiet, clock, dated >>

\* requests.Response.raise_for_status raises for 4xx and 5xx only
raise_for_status(status_code) == 400 <= status_code /\ status_code < 600

\* what the open(localpath, 'wb') of get_file leaves of the destination
OpenForWriting(dest) == "partial"

\* the statements after the loop, up to the return or to the open() of the
\* destination.  "response" is unbound when the loop made no request.
AfterRetries ==
    /\ fetch.at = "loop"
    /\ fetch.done \/ fetch.retried >= fetch.http_retries
    /\ LET last == IF fetch.asked = 0 THEN 0 ELSE fetch.answers[fetch.asked]
           raises == [fetch EXCEPT !.at = "raised", !.raised = "HTTPError",
                                   !.errcode = last]
           goes_on ==
               IF fetch.method = "get_content"
               THEN [fetch EXCEPT !.at = "returned", !.body = last]
               ELSE IF fetch.dryrun
                    THEN [fetch EXCEPT !.at = "returned", !.code = 200]
                    ELSE [fetch EXCEPT !.at = "copy",
                                       !.dest = OpenForWriting(fetch.dest)]
       IN  fetch' =
             IF fetch.done THEN goes_on
             ELSE IF fetch.asked = 0
                  THEN [fetch EXCEPT !.at = "raised", !.raised = "UnboundLocalError"]
                  ELSE IF fetch.method = "get_file" /\ fetch.return_on_fail
                       THEN [fetch EXCEPT !.at = "returned", !.code = last]
                       ELSE IF raise_for_status(last) THEN raises ELSE goes_on
    /\ UNCHANGED << runvars, syncvars, sites, inactive, quiet, clock, dated >>

\* shutil.copyfileobj(response.raw, output): the stream gives the whole body,
\* or it breaks off and the exception leaves get_file with the file as far
\* as it was written
CopyBody ==
    /\ fetch.at = "copy"
    /\ \E whole \in BOOLEAN :
          fetch' = IF whole
                   THEN [fetch EXCEPT !.at = "returned", !.dest = "complete",
                                      !.body = fetch.answers[fetch.asked]]
                   ELSE [fetch EXCEPT !.at = "raised", !.raised = "ProtocolError"]
    /\ UNCHANGED << runvars, syncvars, sites, inactive, quiet, clock, dated >>

\* =========================================================================
\* Initial states
\* =========================================================================
Flags == { a \in [full : BOOLEAN, verbose : BOOLEAN, dryrun : BOOLEAN,
                  continue : BOOLEAN] : ~(a.full /\ a.continue) }

TodoLists == { SubSeq(ProjectOrder, 1, n) : n \in 1..Min(NumProjects, 3) }

\* what a finished earlier run left in its working directory
PriorArtifacts == { "-uploads-sorted.gz", "-foreignrepo-sorted.gz",
                    "-all-media-keep.gz" }

\* the indexes: every project either has one earlier run or none
Indexes == { [p \in S |-> [d \in {1} |-> PriorArtifacts]] : S \in SUBSET Projects }

\* nothing was archived as deleted yet
NoArchive == [p \in Projects |-> {}]

\* the working directory an earlier run left: its normalised inventories
\* and its keep list
PriorDir(U, F) ==
    [EmptyDir EXCEPT !["-uploads-sorted.gz"] = File(U),
                     !["-foreignrepo-sorted.gz"] = File(F),
                     !["-all-media-keep.gz"] = File(SortMerge(U, F))]

\* the directories of the earlier runs the index lists
PriorOf(mrl) ==
    [p \in Projects |->
        IF p \in DOMAIN mrl
        THEN PriorDir(<< UploadRec(1, 1), UploadRec(2, 1) >>, << ForeignRec(3) >>)
        ELSE EmptyDir]

\* the column header line of a raw wikiqueries list: "img_name"
Header == << <<105, 109, 103, 95, 110, 97, 109, 101>> >>

\* a raw inventory as the listing server has it: header, unsorted, a line
\* repeated, a name with two timestamps
RawUploads ==
    << Header, UploadRec(3, 1), UploadRec(2, 2), UploadRec(3, 1), UploadRec(3, 2) >>
RawForeign == << Header, ForeignRec(2), ForeignRec(1) >>

RemoteLists ==
    { [s \in {"-local-wikiqueries.gz", "-remote-wikiqueries.gz"} |-> NoList],
      [s \in {"-local-wikiqueries.gz", "-remote-wikiqueries.gz"} |->
          IF s = "-local-wikiqueries.gz" THEN Served(RawUploads)
          ELSE Served(RawForeign)] }

LocalTrees == { NoTree, Tree({ LocalRec(2, 1), LocalRec(1, 2) }) }

\* no journals, nothing read or fetched
NoJournals == [p \in Projects |-> [s \in JournalSuffixes |-> Absent]]
NoBudget ==
    [p \in Projects |-> [rt \in RepoTypes |-> [read |-> 0, fetched |-> 0, asked |-> {}]]]

\* before a Sync object exists
NoSync ==
    /\ config = [max_uploaded_gets |-> 0, max_foreignrepo_gets |-> 0]
    /\ syncer = NoObject
    /\ dl = Rewind(1, "local", 1)
    /\ journals = NoJournals
    /\ web = [n \in {} |-> 200]
    /\ budget = NoBudget

\* the fetch list an earlier run stopped in: "A.jpg", "A.jpg.jpg", "B.png"
ResumeList == << << NameUniverse[2] >>, << NameUniverse[3] >>, << NameUniverse[4] >> >>

\* what an earlier run left that got through the first entry of the fetch
\* list of every todo project: the list and its retrieved journal, which
\* ends with that entry
Interrupted ==
    /\ lists = [p \in Projects |->
                   IF \E k \in 1..Len(todos) : todos[k] = p
                   THEN [EmptyDir EXCEPT !["-uploaded-toget.gz"] = File(ResumeList),
                                         !["-foreignrepo-toget.gz"] = File(<<>>)]
                   ELSE EmptyDir]
    /\ journals = [p \in Projects |->
                      IF \E k \in 1..Len(todos) : todos[k] = p
                      THEN [NoJournals[p] EXCEPT
                               !["_local_retrieved.gz"] =
                                   File(<< << [file |-> ResumeList[1][1], code |-> 0,
                                               url |-> get_media_download_url(
                                                          ResumeList[1][1], p, "local")] >> >>),
                               !["_local_get_failed.gz"] = File(<<>>)]
                      ELSE NoJournals[p]]
    /\ config \in [max_uploaded_gets : 1..MaxCap, max_foreignrepo_gets : 1..MaxCap]
    /\ syncer = NoObject
    /\ dl = Rewind(1, "local", 1)
    /\ web = [n \in { ResumeList[k][1] : k \in 1..Len(ResumeList) } |-> 200]
    /\ budget = NoBudget

\* before a Projects object is looked at: every site is in the matrix
NoSites ==
    [matrix |-> Projects \cup SpecialSites, private |-> {},
     api |-> [d \in SpecialSites |-> "wikipedia"], whitelist |-> {},
     foreignrepo |-> "commonswiki", active |-> << >>, names |-> {}]

\* no tree of a special site, nothing archived
NoInactive ==
    [trees |-> [d \in SpecialSites |-> NoTree], root |-> FALSE,
     archived |-> << >>, now |-> 1]

\* the run took its date stamp and no midnight has passed
NoClock == [now |-> 1, today |-> 1, stamps |-> << >>]

\* the lists root as far as the index of it is all the run has of it
NoDated == [do_today |-> FALSE, root |-> << >>]

\* no run came before this one
NoQuiet ==
    [pc |-> "", exc |-> "", lists |-> [p \in Projects |-> EmptyDir],
     inputs |-> [media |-> [p \in Projects |-> NoTree], workdirs |-> {},
                 lists |-> [p \in Projects |-> EmptyDir]]]

\* the parts of the state a run without --archive does not come to
Elsewhere ==
    /\ quiet = NoQuiet
    /\ sites = NoSites
    /\ inactive = NoInactive
    /\ fetch = NoFetch
    /\ clock = NoClock
    /\ dated = NoDated

\* the statement do_main goes to after parsing the flags
EntryPoint(a) ==
    IF a.continue THEN "continue_downloads"
    ELSE IF a.full THEN "init_mediadirs" ELSE "get_uploaded_media"

\* a run of sync_mw_media.py on a lists tree without files for today
Init ==
    /\ args \in Flags
    /\ todos \in TodoLists
    /\ most_recent_lists \in Indexes
    /\ prior = PriorOf(most_recent_lists)
    /\ archive = NoArchive
    /\ Elsewhere
    /\ maker = NoObject
    /\ workdirs \in { {}, { todos[i] : i \in 1..Len(todos) } }
    /\ media \in [Projects -> LocalTrees]
    /\ remote \in [Projects -> RemoteLists]
    /\ pc = EntryPoint(args)
    /\ exc = "none"
    /\ IF args.continue
       THEN Interrupted
       ELSE lists = [p \in Projects |-> EmptyDir] /\ NoSync

Next ==
    \/ DoContinueDownloads
    \/ InitMediadirs
    \/ GetLocalMediaLists
    \/ SortLocalMediaLists
    \/ GetProjectUploadedMedia
    \/ GetProjectForeignrepoMedia
    \/ ConstructListsMaker
    \/ ConstructListsMakerIncr
    \/ CleanupUploaded("gen_cleanup_uploaded", "gen_cleanup_foreignrepo")
    \/ CleanupForeignrepo("gen_cleanup_foreignrepo", "gen_uploaded_toget")
    \/ CleanupUploaded("incr_cleanup_uploaded", "incr_cleanup_foreignrepo")
    \/ CleanupForeignrepo("incr_cleanup_foreignrepo", "incr_merge_keep")
    \/ GenerateUploadedFilesToGet
    \/ GenerateForeignrepoFilesToGet
    \/ MergeMediaFilesToKeep("incr_merge_keep", "incr_update_local")
    \/ UpdateLocalMediaLists

Spec == Init /\ [][Next]_vars

\* -------------------------------------------------------------------------
\* The list generation of do_lists_generation on a ListsMaker constructed as
\* ListsMaker.__init__ declares its parameters, over working directories
\* that hold the normalised inventories and the sorted local list
\* -------------------------------------------------------------------------

\* the inputs of one project: local list, uploads list, foreign-repo list
Inputs(L, U, F) ==
    [EmptyDir EXCEPT !["_local_media_sorted.gz"] = L,
                     !["-uploads-sorted.gz"] = U,
                     !["-foreignrepo-sorted.gz"] = F]

\* missing file, stale file, orphan file, foreign files, no local list
Scenarios ==
    { Inputs(File(<< LocalRec(2, 1) >>),
             File(<< UploadRec(2, 1), UploadRec(3, 2) >>), File(<<>>)),
      Inputs(File(<< LocalRec(2, 1) >>), File(<< UploadRec(2, 2) >>), File(<<>>)),
      Inputs(File(<< LocalRec(1, 1) >>), File(<<>>), File(<<>>)),
      Inputs(File(<< LocalRec(1, 1), LocalRec(2, 1) >>), File(<<>>),
             File(<< ForeignRec(2), ForeignRec(3) >>)),
      Inputs(Absent, File(<< UploadRec(2, 1) >>), File(<< ForeignRec(3) >>)) }

\* the sorted inputs of one project: every local list against every uploads
\* list, against every foreign-repo list, and, with one timestamp, against
\* every pair of an uploads list and a foreign-repo list
OneProjectInputs ==
    { << L, U, <<>> >> : L \in LocalLists, U \in UploadLists }
    \cup { << L, <<>>, F >> : L \in LocalLists, F \in ForeignLists }
    \cup { << BuildLocal(l, 1), BuildUpload(u, 1), F >> :
               l \in [NameIdx -> 0..1], u \in [NameIdx -> 0..1], F \in ForeignLists }

\* one project with sorted inputs over the names of the model
InitOneProject ==
    /\ args = [full |-> TRUE, verbose |-> TRUE, dryrun |-> FALSE, continue |-> FALSE]
    /\ todos = << ProjectOrder[1] >>
    /\ most_recent_lists = [p \in {} |-> [d \in {1} |-> PriorArtifacts]]
    /\ prior = PriorOf(most_recent_lists)
    /\ archive = NoArchive
    /\ Elsewhere
    /\ \E in \in OneProjectInputs :
          lists = [p \in Projects |->
                      IF p = ProjectOrder[1] THEN Inputs(File(in[1]), File(in[2]), File(in[3]))
                      ELSE EmptyDir]

\* several projects, each in one of the scenarios, under every flag
InitScenarios ==
    /\ args \in { a \in Flags : ~a.continue }
    /\ todos \in TodoLists
    /\ most_recent_lists \in Indexes
    /\ prior = PriorOf(most_recent_lists)
    /\ archive = NoArchive
    /\ Elsewhere
    /\ lists \in [Projects -> Scenarios]

InitLists ==
    /\ (InitOneProject \/ InitScenarios)
    /\ maker = [most_recent_lists |-> Dict(most_recent_lists), full |-> args.full,
                verbose |-> args.verbose, dryrun |-> args.dryrun]
    /\ workdirs = Projects
    /\ media = [p \in Projects |-> NoTree]
    /\ remote = [p \in Projects |->
                    [s \in {"-local-wikiqueries.gz", "-remote-wikiqueries.gz"} |-> NoList]]
    /\ pc = "gen_uploaded_toget"
    /\ exc = "none"
    /\ NoSync

NextLists ==
    \/ GenerateUploadedFilesToGet
    \/ GenerateForeignrepoFilesToGet
    \/ MergeMediaFilesToKeep("gen_merge_keep", "gen_local_not_on_remote")
    \/ ListLocalMediaNotOnRemote

SpecLists == InitLists /\ [][NextLists]_vars

\* -------------------------------------------------------------------------
\* The lists of the changes since the run before: the last three calls of
\* do_incr_lists_generation, over working directories that hold today's
\* normalised inventories and keep list next to those of the run before
\* -------------------------------------------------------------------------

\* the uploads lists of the run before: one timestamp
OldUploadLists == { BuildUpload(g, 1) : g \in [NameIdx -> 0..1] }
OldForeignLists == { <<>>, << ForeignRec(3) >> }
NewForeignLists == { <<>>, << ForeignRec(3) >>, << ForeignRec(1), ForeignRec(3) >> }

\* the index when exactly the projects of S have a run before
IndexOf(S) == [p \in S |-> [d \in {1} |-> PriorArtifacts]]

\* one project: every uploads list of today against every one of before
InitDiffOne ==
    /\ args = [full |-> FALSE, verbose |-> TRUE, dryrun |-> FALSE, continue |-> FALSE]
    /\ todos = << ProjectOrder[1] >>
    /\ most_recent_lists = IndexOf({ ProjectOrder[1] })
    /\ archive = NoArchive
    /\ Elsewhere
    /\ \E Uold \in OldUploadLists, Fold \in OldForeignLists,
          U \in UploadLists, F \in NewForeignLists :
          /\ prior = [p \in Projects |->
                         IF p = ProjectOrder[1] THEN PriorDir(Uold, Fold) ELSE EmptyDir]
          /\ lists = [p \in Projects |->
                         IF p = ProjectOrder[1] THEN PriorDir(U, F) ELSE EmptyDir]

\* what today's inventories of a project are after those of PriorOf: less,
\* more, the same, nothing, or no lists at all
TodayDirs ==
    { PriorDir(<< UploadRec(1, 1) >>, << ForeignRec(3) >>),
      PriorDir(<< UploadRec(1, 1), UploadRec(2, 1), UploadRec(4, 2) >>,
               << ForeignRec(3) >>),
      PriorDir(<< UploadRec(1, 1), UploadRec(2, 1) >>, << ForeignRec(3) >>),
      PriorDir(<<>>, <<>>),
      EmptyDir }

\* several projects, under every flag and index
InitDiffScenarios ==
    /\ args \in { a \in Flags : ~a.continue /\ ~a.full }
    /\ todos \in TodoLists
    /\ most_recent_lists \in Indexes
    /\ prior = PriorOf(most_recent_lists)
    /\ archive = NoArchive
    /\ Elsewhere
    /\ lists \in [Projects -> TodayDirs]

InitDiff ==
    /\ (InitDiffOne \/ InitDiffScenarios)
    /\ maker = [most_recent_lists |-> Dict(most_recent_lists), full |-> args.full,
                verbose |-> args.verbose, dryrun |-> args.dryrun]
    /\ workdirs = Projects
    /\ media = [p \in Projects |-> NoTree]
    /\ remote = [p \in Projects |->
                    [s \in {"-local-wikiqueries.gz", "-remote-wikiqueries.gz"} |-> NoList]]
    /\ pc = "incr_gone"
    /\ exc = "none"
    /\ NoSync

NextDiff ==
    \/ ListMediaGoneFromRemote
    \/ ListNewUploadedMediaOnRemote
    \/ ListNewForeignMediaOnRemote

SpecDiff == InitDiff /\ [][NextDiff]_vars

\* -------------------------------------------------------------------------
\* Every list the ListsMaker writes from sorted inventories: the methods of
\* do_lists_generation and the last three of do_incr_lists_generation
\* -------------------------------------------------------------------------
InitMaker == InitLists \/ InitDiff

NextMaker == NextLists \/ NextDiff

SpecMaker == InitMaker /\ [][NextMaker]_vars

\* -------------------------------------------------------------------------
\* Sync.get_new_media on a Sync constructed as Sync.__init__ declares its
\* parameters, over working directories that hold the fetch lists
\* -------------------------------------------------------------------------

\* the names the fetch lists draw from, out of NameUniverse
\*   "A.exe" (extension not allowed), "A.jpg", "B.png", "b/c.gif" (a path)
FetchNameIdx == { 1, 2, 4, 5 }

RECURSIVE BuildFetch(_, _)
BuildFetch(g, i) ==
    IF i > Len(NameUniverse) THEN <<>>
    ELSE (IF i \in g THEN << << NameUniverse[i] >> >> ELSE <<>>) \o BuildFetch(g, i + 1)

\* the fetch lists: sorted, without repeats, one name a line
FetchLists ==
    { BuildFetch(g, 1) : g \in { h \in SUBSET FetchNameIdx : Cardinality(h) <= MaxFetchLen } }

ForeignFetchLists == { <<>>, << << NameUniverse[4] >> >> }

FetchDirs ==
    { [EmptyDir EXCEPT !["-uploaded-toget.gz"] = File(u),
                       !["-foreignrepo-toget.gz"] = File(f)] :
          u \in FetchLists, f \in ForeignFetchLists }

\* the fetch lists of the projects after the first, the same for each:
\* nothing to get, or one file of each repotype
LaterFetchDirs ==
    { [EmptyDir EXCEPT !["-uploaded-toget.gz"] = File(<<>>),
                       !["-foreignrepo-toget.gz"] = File(<<>>)],
      [EmptyDir EXCEPT !["-uploaded-toget.gz"] = File(<< << NameUniverse[2] >> >>),
                       !["-foreignrepo-toget.gz"] = File(<< << NameUniverse[4] >> >>)] }

\* the names of the fetch lists that pass the sanity gate: the files the
\* media server is asked for; it does not change during a run
FetchableNames ==
    { n \in { NameUniverse[k] : k \in FetchNameIdx \cup {2, 4} } :
          is_sane_mediafilename(n) }

\* Sync(config, projects, verbose, dryrun); projects.todo is None when the
\* run was given no list of projects
Syncers == { [todo |-> "list", dryrun |-> FALSE],
             [todo |-> "list", dryrun |-> TRUE],
             [todo |-> "None", dryrun |-> FALSE] }

InitSync ==
    /\ args = [full |-> FALSE, verbose |-> FALSE, dryrun |-> FALSE, continue |-> FALSE]
    /\ todos \in TodoLists
    /\ most_recent_lists = [p \in {} |-> [d \in {1} |-> PriorArtifacts]]
    /\ prior = PriorOf(most_recent_lists)
    /\ archive = NoArchive
    /\ Elsewhere
    /\ maker = NoObject
    /\ workdirs = Projects
    /\ \E first \in FetchDirs, later \in LaterFetchDirs :
          lists = [p \in Projects |->
                      IF p = todos[1] THEN first
                      ELSE IF \E k \in 1..Len(todos) : todos[k] = p THEN later
                      ELSE EmptyDir]
    /\ media = [p \in Projects |-> Tree({})]
    /\ remote = [p \in Projects |->
                    [s \in {"-local-wikiqueries.gz", "-remote-wikiqueries.gz"} |-> NoList]]
    /\ config \in [max_uploaded_gets : 0..MaxCap, max_foreignrepo_gets : { 0, MaxCap }]
    /\ syncer \in Syncers
    /\ dl = Rewind(1, "local", 1)
    /\ journals = NoJournals
    /\ web \in [FetchableNames -> Statuses]
    /\ budget = NoBudget
    /\ pc = "get_new_media"
    /\ exc = "none"

NextSync ==
    \/ OpenLists
    \/ GetOne
    \/ EndOfProject

SpecSync == InitSync /\ [][NextSync]_vars

\* -------------------------------------------------------------------------
\* Runs that follow one another against a remote that does not change: each
\* run makes its fetch lists from the sorted inventories and the local tree
\* as it is, and then downloads
\* -------------------------------------------------------------------------

\* the sorted local list of a tree: record_local_media_for_project in some
\* order of the walk, and sort_local_media_for_project
RECURSIVE Walk(_)
Walk(files) ==
    IF files = {} THEN <<>>
    ELSE LET f == CHOOSE g \in files : TRUE IN << f >> \o Walk(files \ {f})
SortedTree(tree) == SortLocal(Walk(tree.files))

\* the working directory of a run: the two inventories and the fetch lists
\* list_uploaded_files_toget_for_project and
\* list_foreignrepo_files_toget_for_project write from them
RunDir(tree, U, F) ==
    [EmptyDir EXCEPT !["-uploads-sorted.gz"] = File(U),
                     !["-foreignrepo-sorted.gz"] = File(F),
                     !["_local_media_sorted.gz"] = File(SortedTree(tree)),
                     !["-uploaded-toget.gz"] = File(DiffFetchUploaded(SortedTree(tree), U)),
                     !["-foreignrepo-toget.gz"] = File(DiffFetchForeign(SortedTree(tree), F))]

\* the next run: the lists of a new date, no journals yet
RunAgain ==
    /\ pc = "synced" /\ exc = "none"
    /\ lists' = [p \in Projects |->
                    IF p \in { todos[k] : k \in 1..Len(todos) }
                    THEN RunDir(media[p], lists[p]["-uploads-sorted.gz"].lines,
                                lists[p]["-foreignrepo-sorted.gz"].lines)
                    ELSE lists[p]]
    /\ journals' = NoJournals
    /\ budget' = NoBudget
    /\ dl' = Rewind(1, "local", 1)
    /\ pc' = "get_new_media"
    /\ UNCHANGED << more, prior, archive, args, todos, most_recent_lists, maker, workdirs, media,
                    remote, exc, config, syncer, web >>

\* the uploads inventories of the model: the fetch names, one timestamp
RECURSIVE BuildFetchUploads(_, _)
BuildFetchUploads(g, i) ==
    IF i > Len(NameUniverse) THEN <<>>
    ELSE (IF i \in g THEN << UploadRec(i, 1) >> ELSE <<>>) \o BuildFetchUploads(g, i + 1)

FetchUploads ==
    { BuildFetchUploads(g, 1) :
          g \in { h \in SUBSET FetchNameIdx : Cardinality(h) <= MaxFetchLen } }

FetchForeigns == { <<>>, << ForeignRec(4) >> }

\* a first run on empty media directories, with a cap of at least one, a
\* server on which a file is there (200) or is not (404)
InitRuns ==
    /\ args = [full |-> TRUE, verbose |-> FALSE, dryrun |-> FALSE, continue |-> FALSE]
    /\ todos \in TodoLists
    /\ most_recent_lists = [p \in {} |-> [d \in {1} |-> PriorArtifacts]]
    /\ prior = PriorOf(most_recent_lists)
    /\ archive = NoArchive
    /\ Elsewhere
    /\ maker = NoObject
    /\ workdirs = Projects
    /\ media = [p \in Projects |-> Tree({})]
    /\ \E U \in FetchUploads, F \in FetchForeigns :
          lists = [p \in Projects |->
                      IF p = todos[1] THEN RunDir(Tree({}), U, F)
                      ELSE IF \E k \in 1..Len(todos) : todos[k] = p
                           THEN RunDir(Tree({}), << UploadRec(2, 1) >>, <<>>)
                      ELSE EmptyDir]
    /\ remote = [p \in Projects |->
                    [s \in {"-local-wikiqueries.gz", "-remote-wikiqueries.gz"} |-> NoList]]
    /\ config \in [max_uploaded_gets : 1..MaxCap, max_foreignrepo_gets : 1..MaxCap]
    /\ syncer = [todo |-> "list", dryrun |-> FALSE]
    /\ dl = Rewind(1, "local", 1)
    /\ journals = NoJournals
    /\ web \in [FetchableNames -> { 200, 404 }]
    /\ budget = NoBudget
    /\ pc = "get_new_media"
    /\ exc = "none"

NextRuns ==
    \/ OpenLists
    \/ GetOne
    \/ EndOfProject
    \/ RunAgain

\* a run goes on while it can, and after a run that ended the next run is
\* started: weak fairness of the steps of a run and of RunAgain, which is
\* enabled exactly when a run has ended without an exception
RunEnded == pc = "synced" /\ exc = "none"

SpecRuns ==
    /\ InitRuns
    /\ [][NextRuns]_vars
    /\ WF_vars(OpenLists \/ GetOne \/ EndOfProject)
    /\ ([]<>(~RunEnded) \/ []<><<RunAgain>>_vars)

\* -------------------------------------------------------------------------
\* Runs of do_sync that follow one another while the remote changes: each
\* run has the lists made from the inventories of its day and the local
\* tree as it is, moves what its delete list names and downloads
\* -------------------------------------------------------------------------

\* the working directory of such a run: the lists of RunDir, the keep list
\* and the delete list list_local_media_not_on_remote writes from it
LifeDir(tree, U, F) ==
    [RunDir(tree, U, F) EXCEPT
        !["-all-media-keep.gz"] = File(SortMerge(U, F)),
        !["-all-media-delete.gz"] = File(DiffDelete(SortMerge(U, F), SortedTree(tree)))]

\* the uploads inventories of a day: "A.jpg", "B.png" and "b/c.gif", there
\* or not
LifeUploads == { BuildFetchUploads(g, 1) : g \in SUBSET { 2, 4, 5 } }

\* the local tree of the first project when the first run starts
LifeTrees == { Tree({}), Tree({ LocalRec(2, 1) }), Tree({ LocalRec(2, 1), LocalRec(4, 1) }) }

\* the inventories of the later projects name "B.png" only
LaterLifeDir(tree) == LifeDir(tree, << UploadRec(4, 1) >>, <<>>)

InitLife ==
    /\ args = [full |-> TRUE, verbose |-> FALSE, dryrun |-> FALSE, continue |-> FALSE]
    /\ todos \in TodoLists
    /\ most_recent_lists = [p \in {} |-> [d \in {1} |-> PriorArtifacts]]
    /\ prior = PriorOf(most_recent_lists)
    /\ archive = NoArchive
    /\ Elsewhere
    /\ maker = NoObject
    /\ workdirs = Projects
    /\ \E T \in LifeTrees :
          media = [p \in Projects |->
                      IF p = todos[1] THEN T
                      ELSE IF \E k \in 1..Len(todos) : todos[k] = p
                           THEN Tree({ LocalRec(2, 1) })
                      ELSE NoTree]
    /\ \E U \in LifeUploads, F \in FetchForeigns :
          lists = [p \in Projects |->
                      IF p = todos[1] THEN LifeDir(media[p], U, F)
                      ELSE IF \E k \in 1..Len(todos) : todos[k] = p
                           THEN LaterLifeDir(media[p])
                      ELSE EmptyDir]
    /\ remote = [p \in Projects |->
                    [s \in {"-local-wikiqueries.gz", "-remote-wikiqueries.gz"} |-> NoList]]
    /\ config \in [max_uploaded_gets : 1..MaxCap, max_foreignrepo_gets : 1..MaxCap]
    /\ syncer \in Syncers
    /\ dl = Rewind(1, "local", 1)
    /\ journals = NoJournals
    /\ web = [n \in FetchableNames |-> 200]
    /\ budget = NoBudget
    /\ pc = "delete_local_media"
    /\ exc = "none"

\* the run of the next day: the first project's inventories are what the
\* remote has by then
NextDay ==
    /\ pc = "synced" /\ exc = "none"
    /\ \E U \in LifeUploads, F \in FetchForeigns :
          lists' = [p \in Projects |->
                       IF p = todos[1] THEN LifeDir(media[p], U, F)
                       ELSE IF \E k \in 1..Len(todos) : todos[k] = p
                            THEN LaterLifeDir(media[p])
                       ELSE lists[p]]
    /\ journals' = NoJournals
    /\ budget' = NoBudget
    /\ dl' = Rewind(1, "local", 1)
    /\ pc' = "delete_local_media"
    /\ UNCHANGED << more, prior, archive, args, todos, most_recent_lists, maker, workdirs,
                    media, remote, exc, config, syncer, web >>

NextLife ==
    \/ DeleteLocalMediaNotOnRemote
    \/ OpenLists
    \/ GetOne
    \/ EndOfProject
    \/ NextDay

SpecLife == InitLife /\ [][NextLife]_vars

\* -------------------------------------------------------------------------
\* Full runs that follow one another against a remote that does not change:
\* the next run makes its lists from the same inventories and the local
\* tree as the run before left it, whose working directories are by then
\* those of the run before
\* -------------------------------------------------------------------------
RunFullAgain ==
    /\ pc = "synced" /\ exc = "none"
    /\ prior' = lists
    /\ lists' = [p \in Projects |->
                    IF \E k \in 1..Len(todos) : todos[k] = p
                    THEN LifeDir(media[p], lists[p]["-uploads-sorted.gz"].lines,
                                 lists[p]["-foreignrepo-sorted.gz"].lines)
                    ELSE lists[p]]
    /\ journals' = NoJournals
    /\ budget' = NoBudget
    /\ dl' = Rewind(1, "local", 1)
    /\ pc' = "delete_local_media"
    /\ UNCHANGED << more, archive, args, todos, most_recent_lists, maker, workdirs,
                    media, remote, exc, config, syncer, web >>

NextTwice ==
    \/ DeleteLocalMediaNotOnRemote
    \/ OpenLists
    \/ GetOne
    \/ EndOfProject
    \/ RunFullAgain

SpecTwice == InitLife /\ [][NextTwice]_vars

\* -------------------------------------------------------------------------
\* The archiving of do_localmedia_prep under --archive: a Projects object is
\* made from a site matrix and a whitelist, and the local tree holds the
\* directories of earlier runs.  A regular site that left the matrix is a
\* retired project.
\* -------------------------------------------------------------------------
Whitelists == { {}, { "enwiki" }, { "elwiki", "metawiki" }, { "commonswiki" },
                { "nowiki" } }

Matrices == { m \in SUBSET (Projects \cup SpecialSites) : "enwiki" \in m }

\* a tree with media in its hash directories, one with none
FullTree == Tree({ LocalRec(2, 1) })
ArchTrees == { NoTree, Tree({}), FullTree }

\* what an earlier archiving left at the target of "wikipedia/el" of this
\* second: nothing, the tree, the tree with another one inside it
EarlierArchives ==
    { << >>,
      [t \in { ArchiveTarget("elwiki", 1) } |->
          [files |-> { LocalRec(1, 1) }, inner |-> NoTree]],
      [t \in { ArchiveTarget("elwiki", 1) } |->
          [files |-> { LocalRec(1, 1) }, inner |-> Tree({ LocalRec(1, 2) })]] }

InitArchive ==
    /\ quiet = NoQuiet
    /\ args \in { a \in Flags : a.full /\ ~a.verbose }
    /\ todos = << >>
    /\ most_recent_lists = [p \in {} |-> << >>]
    /\ prior = PriorOf(most_recent_lists)
    /\ archive = [p \in Projects |-> {}]
    /\ maker = NoObject
    /\ workdirs = {}
    /\ lists = [p \in Projects |-> EmptyDir]
    /\ remote = [p \in Projects |->
                    [s \in {"-local-wikiqueries.gz", "-remote-wikiqueries.gz"} |-> NoList]]
    /\ NoSync
    /\ pc = "projects"
    /\ exc = "none"
    /\ media \in { md \in [Projects -> ArchTrees] : md["enwiki"] = FullTree }
    /\ \E m \in Matrices, w \in Whitelists, fr \in { "", "commonswiki" },
          pr \in SUBSET { "metawiki" }, a \in { "wikipedia", "None" } :
          /\ "metawiki" \notin m => (pr = {} /\ a = "wikipedia")
          /\ sites = [NoSites EXCEPT !.matrix = m, !.whitelist = w, !.foreignrepo = fr,
                                  !.private = pr, !.api = [d \in SpecialSites |->
                                       IF d = "metawiki" THEN a ELSE "wikipedia"]]
    /\ fetch = NoFetch
    /\ clock = NoClock
    /\ dated = NoDated
    /\ \E sp \in { t \in [SpecialSites -> ArchTrees] : t["commonswiki"] # Tree({}) },
          ea \in EarlierArchives :
          inactive = [NoInactive EXCEPT !.trees = sp, !.archived = ea]

NextArchive ==
    \/ ConstructProjects
    \/ ArchiveInactiveProjects

SpecArchive == InitArchive /\ [][NextArchive]_vars

\* -------------------------------------------------------------------------
\* One call of the WebGetter: the server answers the successive requests
\* with any status codes.
\* -------------------------------------------------------------------------
MaxRetries == 2

StatusCodes == { 101, 200, 204, 304, 404, 503 }

\* a run with the flags a is at the statement at, with nothing done yet
RunAt(a, at) ==
    /\ args = a
    /\ todos = << >>
    /\ most_recent_lists = [p \in {} |-> << >>]
    /\ prior = PriorOf(most_recent_lists)
    /\ archive = [p \in Projects |-> {}]
    /\ maker = NoObject
    /\ workdirs = {}
    /\ lists = [p \in Projects |-> EmptyDir]
    /\ media = [p \in Projects |-> NoTree]
    /\ remote = [p \in Projects |->
                    [s \in {"-local-wikiqueries.gz", "-remote-wikiqueries.gz"} |-> NoList]]
    /\ NoSync
    /\ pc = at
    /\ exc = "none"

\* no run is under way
NoRun ==
    RunAt([full |-> FALSE, verbose |-> FALSE, dryrun |-> FALSE, continue |-> FALSE],
          "idle")

InitFetch ==
    /\ quiet = NoQuiet
    /\ NoRun
    /\ sites = NoSites
    /\ inactive = NoInactive
    /\ clock = NoClock
    /\ dated = NoDated
    /\ \E m \in { "get_file", "get_content" }, rof \in BOOLEAN, dry \in BOOLEAN,
          n \in 0..MaxRetries, a \in [1..MaxRetries -> StatusCodes] :
          /\ m = "get_content" => ~rof
          /\ fetch = [NoFetch EXCEPT !.method = m, !.return_on_fail = rof,
                                     !.dryrun = dry, !.http_retries = n,
                                     !.answers = a, !.at = "loop"]

NextFetch ==
    \/ Attempt
    \/ AfterRetries
    \/ CopyBody

SpecFetch == InitFetch /\ [][NextFetch]_vars

\* -------------------------------------------------------------------------
\* The date stamps of a run: do_main takes the UTC date once and hands it
\* to the components it constructs; the date goes on while the run is
\* under way.  Sync is constructed as its __init__ declares it.
\* -------------------------------------------------------------------------
MaxDays == 2

Components == { "LocalFiles", "ListsGetter", "ListsMaker", "Sync" }

\* the UTC date changes
Midnight ==
    /\ pc \in { "today", "dates_local", "dates_getter", "dates_maker", "dates_sync" }
    /\ clock.now < 1 + MaxDays
    /\ clock' = [clock EXCEPT !.now = @ + 1]
    /\ UNCHANGED << args, todos, most_recent_lists, maker, workdirs, lists, media, remote,
                    pc, exc, prior, archive >>
    /\ UNCHANGED << syncvars, sites, inactive, quiet, fetch, dated >>

\* do_main: today = time.strftime("%Y%m%d", time.gmtime())
TakeToday ==
    /\ pc = "today"
    /\ clock' = [clock EXCEPT !.today = clock.now]
    /\ pc' = IF args.continue THEN "dates_sync"
             ELSE IF args.full THEN "dates_local" ELSE "dates_getter"
    /\ UNCHANGED << args, todos, most_recent_lists, maker, workdirs, lists, media, remote,
                    exc, prior, archive >>
    /\ UNCHANGED << syncvars, sites, inactive, quiet, fetch, dated >>

\* a constructor that is handed today: "self.today = today"
TodayPassed(c) == c.today

\* LocalFiles.__init__ of sync.py, which Sync.__init__ calls:
\* "self.today = time.strftime("%Y%m%d", time.gmtime())"
TodayOfSync(c) == c.now

\* the construction of one component, and the phase it is made for
Construct(at, component, today, nextpc) ==
    /\ pc = at
    /\ clock' = [clock EXCEPT !.stamps[component] = today]
    /\ pc' = nextpc
    /\ UNCHANGED << args, todos, most_recent_lists, maker, workdirs, lists, media, remote,
                    exc, prior, archive >>
    /\ UNCHANGED << syncvars, sites, inactive, quiet, fetch, dated >>

InitDates ==
    /\ quiet = NoQuiet
    /\ \E a \in Flags : RunAt(a, "today")
    /\ sites = NoSites
    /\ inactive = NoInactive
    /\ fetch = NoFetch
    /\ dated = NoDated
    /\ clock = [now |-> 1, today |-> 0, stamps |-> [c \in Components |-> 0]]

NextDates ==
    \/ Midnight
    \/ TakeToday
    \/ Construct("dates_local", "LocalFiles", TodayPassed(clock), "dates_getter")
    \/ Construct("dates_getter", "ListsGetter", TodayPassed(clock), "dates_maker")
    \/ Construct("dates_maker", "ListsMaker", TodayPassed(clock), "dates_sync")
    \/ Construct("dates_sync", "Sync", TodayOfSync(clock), "dates_done")

SpecDates == InitDates /\ [][NextDates]_vars

\* -------------------------------------------------------------------------
\* The index of the earlier runs: ListsMaker.get_most_recent over a lists
\* root that earlier runs wrote, and the artifacts the run writes under
\* today's date afterwards.
\* -------------------------------------------------------------------------

\* the name of the directory of a date, 8 digits: "0000000n"
DateName(n) == << 48, 48, 48, 48, 48, 48, 48, 48 + n >>

\* other entries of the lists root: "0000009" "0000009a" "000000091"
OtherNames ==
    { << 48, 48, 48, 48, 48, 48, 57 >>,
      << 48, 48, 48, 48, 48, 48, 48, 57, 97 >>,
      << 48, 48, 48, 48, 48, 48, 48, 57, 49 >> }

\* every entry of the lists root counts as a date
IsAnyName(name) == TRUE

\* "len(date) == 8 and date.isdigit()"
IsDateName(name) == Len(name) = 8 /\ \A i \in 1..Len(name) : name[i] \in 48..57

\* the number a name of digits spells: the keys of the index are strings of
\* 8 digits, which sort as the numbers they spell
RECURSIVE Spelled(_, _)
Spelled(name, n) ==
    IF n = 0 THEN 0 ELSE 10 * Spelled(name, n - 1) + (name[n] - 48)

\* the characters of a project name
Chars(project) ==
    CASE project = "enwiki" -> << "e", "n", "w", "i", "k", "i" >>
      [] project = "elwiki" -> << "e", "l", "w", "i", "k", "i" >>
      [] project = "dewiki" -> << "d", "e", "w", "i", "k", "i" >>

\* the name of an artifact: project + suffix
FileName(project, suffix) == Chars(project) \o << suffix >>

\* "filename[len(project):]"
StripProject(filename, project) ==
    SubSeq(filename, Len(Chars(project)) + 1, Len(filename))

\* ListsMaker.get_most_recent(basedir, today, do_today)
get_most_recent(basedir, today, do_today) ==
    LET dates == { d \in DOMAIN basedir :
                     IsDateName(d) /\ (do_today \/ d # today) }
        projects == UNION { DOMAIN basedir[d] : d \in dates }
    IN  [project \in projects |->
            [date \in { Spelled(d, Len(d)) : d \in { e \in dates : project \in DOMAIN basedir[e] } } |->
                UNION { { StripProject(f, project)[1] : f \in basedir[d][project] } :
                          d \in { e \in dates : Spelled(e, Len(e)) = date
                                                  /\ project \in DOMAIN basedir[e] } }]]

\* do_main: most_recent_lists = ListsMaker.get_most_recent(listsdir, today)
GetMostRecent ==
    /\ pc = "index"
    /\ most_recent_lists' = get_most_recent(dated.root, DateName(clock.today),
                                            dated.do_today)
    /\ pc' = "indexed"
    /\ UNCHANGED << args, todos, maker, workdirs, lists, media, remote, exc, prior,
                    archive >>
    /\ UNCHANGED << syncvars, sites, inactive, quiet, fetch, clock, dated >>

\* the run writes a keep list of a project into <listsdir>/<today>/
WriteTodaysArtifact ==
    /\ pc \in { "indexed", "writing" }
    /\ \E project \in Projects, suffix \in { "-all-media-keep.gz" } :
          LET today == DateName(clock.today)
              dir == IF today \in DOMAIN dated.root THEN dated.root[today] ELSE << >>
              files == IF project \in DOMAIN dir THEN dir[project] ELSE {}
              newdir == [q \in DOMAIN dir \cup { project } |->
                           IF q = project THEN files \cup { FileName(project, suffix) }
                           ELSE dir[q]]
          IN  /\ FileName(project, suffix) \notin files
              /\ dated' = [dated EXCEPT !.root =
                              [d \in DOMAIN dated.root \cup { today } |->
                                  IF d = today THEN newdir ELSE dated.root[d]]]
    /\ pc' = "writing"
    /\ UNCHANGED << args, todos, most_recent_lists, maker, workdirs, lists, media, remote,
                    exc, prior, archive >>
    /\ UNCHANGED << syncvars, sites, inactive, quiet, fetch, clock >>

\* what a date directory can hold: a keep list and a normalised uploads
\* list for every project, the uploads lists alone, a keep list of the first
\* project alone
DirChoices ==
    { [q \in Projects |-> { FileName(q, "-all-media-keep.gz"),
                           FileName(q, "-uploads-sorted.gz") }],
      [q \in Projects |-> { FileName(q, "-uploads-sorted.gz") }],
      [q \in { ProjectOrder[1] } |-> { FileName(q, "-all-media-keep.gz") }] }

Dates == 1..(MaxDays + 1)

InitIndex ==
    /\ quiet = NoQuiet
    /\ \E a \in { f \in Flags : ~f.continue /\ ~f.verbose /\ ~f.dryrun } :
          RunAt(a, "index")
    /\ sites = NoSites
    /\ inactive = NoInactive
    /\ fetch = NoFetch
    /\ \E t \in Dates : clock = [NoClock EXCEPT !.now = t, !.today = t]
    /\ \E D \in SUBSET Dates, c \in [Dates -> DirChoices], dt \in BOOLEAN :
          dated = [do_today |-> dt,
                   root |-> [d \in { DateName(n) : n \in D } \cup OtherNames |->
                               IF d \in OtherNames
                               THEN [q \in Projects |->
                                       { FileName(q, "-all-media-keep.gz") }]
                               ELSE c[Spelled(d, Len(d))]]]

NextIndex ==
    \/ GetMostRecent
    \/ WriteTodaysArtifact

SpecIndex == InitIndex /\ [][NextIndex]_vars

\* -------------------------------------------------------------------------
\* Where a run writes: every component builds the paths it opens for
\* writing as os.path.join(listsdir, <its date>, project, project + suffix),
\* over a lists root that holds the working directories of earlier runs.
\* A phase is taken as a whole: for each todo project it writes its
\* artifacts or none of them, and it returns or raises.
\* -------------------------------------------------------------------------

\* the working directory <listsdir>/<d>/<p>/ is there; the files in it
HasDir(root, d, p) == d \in DOMAIN root /\ p \in DOMAIN root[d]
FilesAt(root, d, p) == IF HasDir(root, d, p) THEN root[d][p] ELSE {}

\* the files of W[p] are written into <listsdir>/<D[p]>/<p>/
PutFiles(root, D, W) ==
    LET touched == { D[p] : p \in { q \in DOMAIN W : W[q] # {} } } IN
    [d \in DOMAIN root \cup touched |->
        LET here == { p \in DOMAIN W : W[p] # {} /\ D[p] = d }
            old == IF d \in DOMAIN root THEN DOMAIN root[d] ELSE {}
        IN  [q \in old \cup here |->
                FilesAt(root, d, q)
                    \cup (IF q \in here THEN { FileName(q, s) : s \in W[q] } ELSE {})]]

\* one phase of a run: the component writes under its own date.  Only
\* record_local_media_for_project makes the working directory (makes); the
\* files a phase opens for reading before it writes are needs.
Phase(at, component, makes, needs, writes, nextpc) ==
    /\ pc = at /\ exc = "none"
    /\ LET d == DateName(clock.stamps[component])
           td == { todos[k] : k \in 1..Len(todos) }
       IN  \E W \in [td -> { {}, writes }], e \in { "none", "FileNotFoundError" } :
              /\ \A q \in td :
                    W[q] # {} =>
                        /\ makes \/ HasDir(dated.root, d, q)
                        /\ { FileName(q, s) : s \in needs } \subseteq FilesAt(dated.root, d, q)
              /\ (e = "none") = (\A q \in td : W[q] # {})
              /\ dated' = [dated EXCEPT !.root = PutFiles(@, [q \in td |-> d], W)]
              /\ exc' = e
              /\ pc' = IF e = "none" THEN nextpc ELSE pc
    /\ UNCHANGED << args, todos, most_recent_lists, maker, workdirs, lists, media, remote,
                    prior, archive >>
    /\ UNCHANGED << syncvars, sites, inactive, quiet, fetch, clock >>

\* diff_lists writes into the directory of the date of the run before
OutDateOld(today, date) == date

\* diff_lists: "outfile = os.path.join(self.config['listsdir'], self.today,
\* project, project + out_suffix)"; date is that of the run before
OutDate(today, date) == today

\* list_media_gone_from_remote, list_new_uploaded_media_on_remote and
\* list_new_foreign_media_on_remote: for every todo project that has the
\* input on an earlier date, diff_lists reads it there and today, and
\* writes the output
DiffDated(at, in_suffix, out_suffix, nextpc) ==
    /\ pc = at /\ exc = "none"
    /\ LET today == clock.stamps["ListsMaker"]
           td == { todos[k] : k \in 1..Len(todos) }
           date == [q \in td |->
                       get_most_recent_file(q, in_suffix, Dict(most_recent_lists)).date]
           doing == { q \in td : date[q] # 0 }
           failing == { q \in doing :
                          FileName(q, in_suffix) \notin FilesAt(dated.root, DateName(today), q) }
       IN  /\ dated' = [dated EXCEPT !.root =
                          PutFiles(@, [q \in doing |-> DateName(OutDate(today, date[q]))],
                                   [q \in doing |->
                                       IF failing = {} THEN { out_suffix } ELSE {}])]
           /\ exc' = IF failing = {} THEN "none" ELSE "FileNotFoundError"
           /\ pc' = IF failing = {} THEN nextpc ELSE pc
    /\ UNCHANGED << args, todos, most_recent_lists, maker, workdirs, lists, media, remote,
                    prior, archive >>
    /\ UNCHANGED << syncvars, sites, inactive, quiet, fetch, clock >>

\* do_main: today = time.strftime(...) and most_recent_lists =
\* ListsMaker.get_most_recent(config['listsdir'], today)
StartPast ==
    /\ pc = "today"
    /\ clock' = [clock EXCEPT !.today = clock.now]
    /\ most_recent_lists' = get_most_recent(dated.root, DateName(clock.now), FALSE)
    /\ pc' = IF args.continue THEN "dates_sync"
             ELSE IF args.full THEN "dates_local" ELSE "dates_getter"
    /\ UNCHANGED << args, todos, maker, workdirs, lists, media, remote, exc, prior,
                    archive >>
    /\ UNCHANGED << syncvars, sites, inactive, quiet, fetch, dated >>

\* what an earlier run left in a working directory: the lists of a full
\* run, with the sorted local list named as the LocalFiles of sync.py names
\* it, or the normalised inventories and the keep list alone
FullRunFiles ==
    { "_local_media_sorted.gz", "-local-wikiqueries.gz", "-remote-wikiqueries.gz",
      "-uploads-sorted.gz", "-foreignrepo-sorted.gz", "-all-media-keep.gz",
      "-all-media-delete.gz", "-uploaded-toget.gz", "-foreignrepo-toget.gz" }
PastDirs ==
    { [q \in Projects |-> { FileName(q, s) : s \in FullRunFiles }],
      [q \in Projects |-> { FileName(q, s) : s \in PriorArtifacts }] }

\* a run starts on day 1 or 2; earlier runs left directories of days up to
\* the day the run starts
InitPast ==
    /\ quiet = NoQuiet
    /\ args \in { a \in Flags : ~a.verbose /\ ~a.dryrun }
    /\ todos \in TodoLists
    /\ most_recent_lists = [p \in {} |-> << >>]
    /\ prior = PriorOf(most_recent_lists)
    /\ archive = NoArchive
    /\ maker = NoObject
    /\ workdirs = {}
    /\ lists = [p \in Projects |-> EmptyDir]
    /\ media = [p \in Projects |-> NoTree]
    /\ remote = [p \in Projects |->
                    [s \in {"-local-wikiqueries.gz", "-remote-wikiqueries.gz"} |-> NoList]]
    /\ NoSync
    /\ pc = "today"
    /\ exc = "none"
    /\ sites = NoSites
    /\ inactive = NoInactive
    /\ fetch = NoFetch
    /\ \E t \in 1..2 :
          /\ clock = [now |-> t, today |-> 0, stamps |-> [c \in Components |-> 0]]
          /\ \E D \in SUBSET (1..t), c \in [1..2 -> PastDirs] :
                dated = [do_today |-> FALSE,
                         root |-> [d \in { DateName(n) : n \in D } |->
                                      c[Spelled(d, Len(d))]]]

NextPast ==
    \/ Midnight
    \/ StartPast
    \/ Construct("dates_local", "LocalFiles", TodayPassed(clock), "past_local")
    \/ Phase("past_local", "LocalFiles", TRUE, {},
             { "-local-media.gz", "-local-media-sorted.gz" }, "dates_getter")
    \/ Construct("dates_getter", "ListsGetter", TodayPassed(clock), "past_getter")
    \/ Phase("past_getter", "ListsGetter", FALSE, {},
             { "-local-wikiqueries.gz", "-remote-wikiqueries.gz" }, "dates_maker")
    \/ Construct("dates_maker", "ListsMaker", TodayPassed(clock), "past_maker")
    \/ Phase("past_maker", "ListsMaker", FALSE,
             { "-local-wikiqueries.gz", "-remote-wikiqueries.gz" },
             { "-uploads-sorted.gz", "-foreignrepo-sorted.gz", "-all-media-keep.gz" },
             IF args.full THEN "past_full" ELSE "past_gone")
    \/ Phase("past_full", "ListsMaker", FALSE,
             { "_local_media_sorted.gz", "-uploads-sorted.gz", "-foreignrepo-sorted.gz",
               "-all-media-keep.gz" },
             { "-uploaded-toget.gz", "-foreignrepo-toget.gz", "-all-media-delete.gz" },
             "dates_sync")
    \/ DiffDated("past_gone", "-all-media-keep.gz", "-all-media-gone.gz",
                 "past_new_uploaded")
    \/ DiffDated("past_new_uploaded", "-uploads-sorted.gz",
                 "-new-media-projectuploads.gz", "past_new_foreign")
    \/ DiffDated("past_new_foreign", "-foreignrepo-sorted.gz",
                 "-new-media-foreignrepouploads.gz", "dates_sync")
    \/ Construct("dates_sync", "Sync", TodayOfSync(clock), "past_sync")
    \/ Phase("past_sync", "Sync", FALSE,
             { "-all-media-delete.gz", "-uploaded-toget.gz", "-foreignrepo-toget.gz" },
             JournalSuffixes, "past_done")

SpecPast == InitPast /\ [][NextPast]_vars

\* =========================================================================
\* The same run without and with --verbose
\* =========================================================================
\* do_main is run on the same command line, lists tree, media tree and
\* remote twice: first without --verbose, then, from the same files, with it.
\* quiet keeps the files the first run started from, the statement it ended
\* at, the exception it ended with and the artifacts it left.

\* what a run may change on disk, as it was when the run began
RunInputs(m, w, l) == [media |-> m, workdirs |-> w, lists |-> l]

InitVerbose ==
    /\ args \in { a \in Flags : ~a.verbose }
    /\ todos \in TodoLists
    /\ most_recent_lists \in Indexes
    /\ prior = PriorOf(most_recent_lists)
    /\ archive = NoArchive
    /\ sites = NoSites /\ inactive = NoInactive /\ fetch = NoFetch
    /\ clock = NoClock /\ dated = NoDated
    /\ maker = NoObject
    /\ workdirs \in { {}, { todos[i] : i \in 1..Len(todos) } }
    /\ media \in [Projects -> LocalTrees]
    /\ remote \in [Projects -> RemoteLists]
    /\ pc = EntryPoint(args)
    /\ exc = "none"
    /\ IF args.continue
       THEN Interrupted
       ELSE lists = [p \in Projects |-> EmptyDir] /\ NoSync
    /\ quiet = [NoQuiet EXCEPT !.inputs = RunInputs(media, workdirs, lists)]

\* the run without --verbose has ended; the same command line with --verbose
\* is started on the files the first run started from
RunVerbose ==
    /\ exc # "none" /\ ~args.verbose /\ quiet.exc = ""
    /\ quiet' = [quiet EXCEPT !.pc = pc, !.exc = exc, !.lists = lists]
    /\ args' = [args EXCEPT !.verbose = TRUE]
    /\ media' = quiet.inputs.media
    /\ workdirs' = quiet.inputs.workdirs
    /\ lists' = quiet.inputs.lists
    /\ maker' = NoObject
    /\ pc' = EntryPoint(args)
    /\ exc' = "none"
    /\ UNCHANGED syncvars
    /\ UNCHANGED << sites, inactive, fetch, clock, dated, prior, archive, todos,
                    most_recent_lists, remote >>

NextVerbose == Next \/ RunVerbose

SpecVerbose == InitVerbose /\ [][NextVerbose]_vars

\* =========================================================================
\* Properties
\* =========================================================================

\* the leading fields of the records of a list
KeysOf(lines) == { lines[k][1] : k \in 1..Len(lines) }

\* a timestamp of decimal digits, as a number
TimeVal(ts) == (ts[1] - 48) * 10 + (ts[2] - 48)

\* the three inputs and three outputs of the list generation, per project
LocalSorted(p) == lists[p]["_local_media_sorted.gz"]
UploadsSorted(p) == lists[p]["-uploads-sorted.gz"]
ForeignSorted(p) == lists[p]["-foreignrepo-sorted.gz"]
KeepList(p) == lists[p]["-all-media-keep.gz"]
DeleteList(p) == lists[p]["-all-media-delete.gz"]
UploadedToget(p) == lists[p]["-uploaded-toget.gz"]
ForeignToget(p) == lists[p]["-foreignrepo-toget.gz"]

TodoSet == { todos[k] : k \in 1..Len(todos) }

\* C1: the delete list written is exactly the local records whose filename
\* is not the leading field of any keep record, as whole lines in the order
\* of the local list; with an empty keep list it is the whole local list
C1_DeleteIsLocalMinusKeep ==
    \A p \in Projects :
        DeleteList(p).exists =>
            DeleteList(p).lines =
                SelectSeq(LocalSorted(p).lines,
                          LAMBDA l : l[1] \notin KeysOf(KeepList(p).lines))

\* C2: no filename in a project's delete list is the leading field of a
\* record of that project's keep list of the same run
C2_DeleteSound ==
    \A p \in Projects :
        \A k \in 1..Len(DeleteList(p).lines) :
            DeleteList(p).lines[k][1] \notin KeysOf(KeepList(p).lines)

\* a delete list with an entry, written against a keep list that has
\* records, one of them naming a file of the local list
C2_Witness ==
    \E p \in Projects :
        /\ DeleteList(p).exists /\ DeleteList(p).lines # <<>>
        /\ KeysOf(KeepList(p).lines) \cap KeysOf(LocalSorted(p).lines) # {}

\* the uploads filenames wanted: not in the local list, or there with a
\* timestamp strictly less than the uploads timestamp
FetchUploadedExpected(L, U) ==
    LET wanted(u) ==
            \/ u[1] \notin KeysOf(L)
            \/ \E k \in 1..Len(L) :
                  L[k][1] = u[1] /\ TimeVal(L[k][2]) < TimeVal(u[2])
        sel == SelectSeq(U, wanted)
    IN  [k \in 1..Len(sel) |-> << sel[k][1] >>]

\* C3: -uploaded-toget.gz holds exactly the uploads filenames that are not
\* in the local list or are older there than in the uploads list, filename
\* only, in the order of the uploads list
C3_UploadedToget ==
    \A p \in Projects :
        UploadedToget(p).exists =>
            UploadedToget(p).lines =
                FetchUploadedExpected(LocalSorted(p).lines, UploadsSorted(p).lines)

\* a fetch list written from an uploads list with a file that is missing
\* locally, a file that is stale locally and a file that is up to date
C3_Witness ==
    \E p \in Projects :
        /\ UploadedToget(p).exists
        /\ \E u \in 1..Len(UploadsSorted(p).lines) :
              UploadsSorted(p).lines[u][1] \notin KeysOf(LocalSorted(p).lines)
        /\ \E u \in 1..Len(UploadsSorted(p).lines), l \in 1..Len(LocalSorted(p).lines) :
              /\ UploadsSorted(p).lines[u][1] = LocalSorted(p).lines[l][1]
              /\ TimeVal(LocalSorted(p).lines[l][2]) < TimeVal(UploadsSorted(p).lines[u][2])
        /\ \E u \in 1..Len(UploadsSorted(p).lines), l \in 1..Len(LocalSorted(p).lines) :
              /\ UploadsSorted(p).lines[u][1] = LocalSorted(p).lines[l][1]
              /\ TimeVal(LocalSorted(p).lines[l][2]) >= TimeVal(UploadsSorted(p).lines[u][2])

\* the foreign-repo filenames wanted: those not in the local list
FetchForeignExpected(L, F) ==
    LET sel == SelectSeq(F, LAMBDA f : f[1] \notin KeysOf(L))
    IN  [k \in 1..Len(sel) |-> << sel[k][1] >>]

\* C4: -foreignrepo-toget.gz holds exactly the foreign-repo filenames that
\* are not filenames of the local list, whatever the local timestamps
C4_ForeignToget ==
    \A p \in Projects :
        ForeignToget(p).exists =>
            ForeignToget(p).lines =
                FetchForeignExpected(LocalSorted(p).lines, ForeignSorted(p).lines)

\* a fetch list written from a foreign-repo list with a file that is in the
\* local list and a file that is not
C4_Witness ==
    \E p \in Projects :
        /\ ForeignToget(p).exists
        /\ KeysOf(ForeignSorted(p).lines) \cap KeysOf(LocalSorted(p).lines) # {}
        /\ KeysOf(ForeignSorted(p).lines) \ KeysOf(LocalSorted(p).lines) # {}

\* the index holds an earlier keep list of the project
HasPriorKeep(p) ==
    /\ p \in DOMAIN most_recent_lists
    /\ \E d \in DOMAIN most_recent_lists[p] :
          "-all-media-keep.gz" \in most_recent_lists[p][d]

\* a run without --full or --continue has gone through all of
\* do_incr_lists_generation that it executes
IncrementalGenerationOver ==
    ~args.full /\ ~args.continue /\ pc = "incr_update_local" /\ exc # "none"

\* C5: in a run started without the full flag, a todo project with no prior
\* keep list still gets the full reconciliation: its sorted local inventory,
\* its delete list and its two fetch lists are produced
C5_NoPriorKeepReconciledInFull ==
    IncrementalGenerationOver =>
        \A p \in TodoSet :
            ~HasPriorKeep(p) =>
                /\ lists[p]["-local-media-sorted.gz"].exists
                /\ DeleteList(p).exists
                /\ UploadedToget(p).exists
                /\ ForeignToget(p).exists

\* the list generation of a full run has finished
ListsGenerationOver == pc = "sync" /\ exc = "none" /\ ~maker.dryrun

\* C6: when the list generation has finished, every todo project in full
\* mode has its delete list and its two fetch lists, not only the first
C6_FullModeListsProduced ==
    ListsGenerationOver =>
        \A p \in TodoSet :
            FullModeFor(maker, p).yes =>
                /\ DeleteList(p).exists
                /\ UploadedToget(p).exists
                /\ ForeignToget(p).exists

\* C7: in an incremental run every project handled incrementally gets its
\* -all-media-gone.gz and its two -new-media-* lists
C7_IncrementalListsProduced ==
    IncrementalGenerationOver =>
        \A p \in TodoSet :
            HasPriorKeep(p) =>
                /\ lists[p]["-all-media-gone.gz"].exists
                /\ lists[p]["-new-media-projectuploads.gz"].exists
                /\ lists[p]["-new-media-foreignrepouploads.gz"].exists

\* C8: for each project and repotype, the entries read from the project's
\* fetch list and the Fetcher calls made for them are at most the cap
C8_BudgetRespected ==
    \A p \in Projects, rt \in RepoTypes :
        /\ budget[p][rt].read <= MaxGets(rt)
        /\ budget[p][rt].fetched <= MaxGets(rt)

\* the fetch list being read has entries left
EntriesLeft ==
    dl.open /\ dl.pos < Len(lists[todos[dl.i]][TogetSuffix(dl.rt)].lines)

\* C9: the loop over a fetch list that has entries left stops only after
\* as many entries as the cap whose outcome was not a 404
C9_NotFoundKeepsBudget ==
    (EntriesLeft /\ dl.gets >= MaxGets(dl.rt)) =>
        dl.gets - dl.notfound >= MaxGets(dl.rt)

\* C10: an entry the sanity gate rejects leaves the journals and the
\* remaining budget as they were
C10_RejectionKeepsBudget ==
    [][dl'.rejected = dl.rejected + 1 =>
           (journals' = journals /\ dl'.gets = dl.gets)]_vars

\* a name with a path separator, or without a dot and an allowed extension
\* at its end
NotAllowed(name) ==
    \/ \E k \in 1..Len(name) : name[k] = 47
    \/ ~\E e \in 1..Len(EXTS) :
           /\ Len(name) > Len(EXTS[e])
           /\ name[Len(name) - Len(EXTS[e])] = 46
           /\ SubSeq(name, Len(name) - Len(EXTS[e]) + 1, Len(name)) = EXTS[e]

\* C11: the Fetcher is never invoked for, and no file of the media tree is
\* created under, a name that has a path separator or lacks an allowed
\* extension
C11_SanityGate ==
    /\ \A p \in Projects, rt \in RepoTypes :
           \A n \in budget[p][rt].asked : ~NotAllowed(n)
    /\ \A p \in Projects : \A f \in media[p].files : ~NotAllowed(f[1])

\* a fetch list that starts with a path name has been read, the Fetcher has
\* been invoked for a name of another list and a file has been stored
C11_Witness ==
    /\ \E p \in Projects, rt \in RepoTypes :
          /\ budget[p][rt].read >= 1
          /\ \E k \in 1..Len(lists[p][TogetSuffix(rt)].lines[1][1]) :
                lists[p][TogetSuffix(rt)].lines[1][1][k] = 47
    /\ \E p \in Projects, rt \in RepoTypes : budget[p][rt].asked # {}
    /\ \E p \in Projects : media[p].files # {}

\* the records of a journal, line after line
RECURSIVE Flatten(_)
Flatten(lines) == IF lines = <<>> THEN <<>> ELSE Head(lines) \o Flatten(Tail(lines))
JournalRecords(p, suffix) == Flatten(journals[p][suffix].lines)

\* how many records a journal has of a name
RecordsOf(p, suffix, name) ==
    Cardinality({ k \in 1..Len(JournalRecords(p, suffix)) :
                      JournalRecords(p, suffix)[k].file = name })

Downloadable(p) ==
    { n \in KeysOf(UploadsSorted(p).lines) \cup KeysOf(ForeignSorted(p).lines) :
          ~NotAllowed(n) /\ StatusOf(n) = 200 }

\* C13: under repeated runs against an unchanged remote, every file of a
\* project's fetch lists that passes the sanity gate and is on the server is
\* in the project's local tree in the end, also when rejected or missing
\* entries come first in the list
C13_SteadyProgress ==
    <>(\A p \in TodoSet :
           \A n \in Downloadable(p) : \E f \in media[p].files : f[1] = n)

\* a run of do_main is over: it raised, or it came to its end
RunOver == exc # "none" \/ pc = "synced"

\* the place of the last entry of a project's retrieved journal in its
\* fetch list, 0 when it is not there
MarkerAt(p) ==
    LET retr == JournalRecords(p, "_local_retrieved.gz")
        togets == lists[p]["-uploaded-toget.gz"].lines
    IN  IF retr = <<>> THEN 0
        ELSE IF \E k \in 1..Len(togets) : togets[k][1] = retr[1].file
             THEN CHOOSE k \in 1..Len(togets) : togets[k][1] = retr[1].file
             ELSE 0

\* C14: a run in continue mode takes up each project's fetch list after the
\* last entry of its retrieved journal: when the run is over, the journals
\* of that date still hold what they held and hold the entries after the
\* marker, as many as the cap allows
C14_ResumeAfterMarker ==
    (args.continue /\ RunOver) =>
        \A p \in TodoSet :
            LET togets == lists[p]["-uploaded-toget.gz"].lines
                m == MarkerAt(p)
            IN  m > 0 =>
                    \A k \in (m + 1)..Min(m + config.max_uploaded_gets, Len(togets)) :
                        RecordsOf(p, "_local_retrieved.gz", togets[k][1])
                            + RecordsOf(p, "_local_get_failed.gz", togets[k][1]) = 1

\* the lines of A that do not occur in B, in the order of A
Extra(A, B) == SelectSeq(A, LAMBDA l : \A k \in 1..Len(B) : B[k] # l)

\* C15: the list of media gone from the remote is exactly the keep entries
\* of the run before that are missing from today's keep list, in order, and
\* the lists of new media are exactly today's uploads (foreign-repo) entries
\* that are missing from the list of the run before, in order
C15_ExtraEntries ==
    \A p \in TodoSet :
        /\ (exc = "none" /\ lists[p]["-all-media-gone.gz"].exists) =>
               lists[p]["-all-media-gone.gz"].lines
                   = Extra(prior[p]["-all-media-keep.gz"].lines, KeepList(p).lines)
        /\ (exc = "none" /\ lists[p]["-new-media-projectuploads.gz"].exists) =>
               lists[p]["-new-media-projectuploads.gz"].lines
                   = Extra(UploadsSorted(p).lines, prior[p]["-uploads-sorted.gz"].lines)
        /\ (exc = "none" /\ lists[p]["-new-media-foreignrepouploads.gz"].exists) =>
               lists[p]["-new-media-foreignrepouploads.gz"].lines
                   = Extra(ForeignSorted(p).lines, prior[p]["-foreignrepo-sorted.gz"].lines)

\* the list generation of a run is over: do_lists_generation returned, or
\* the run ended in do_lists_generation or do_incr_lists_generation
GenerationOver ==
    \/ pc = "sync" /\ exc = "none"
    \/ /\ exc # "none"
       /\ pc \in { "gen_cleanup_uploaded", "gen_cleanup_foreignrepo", "gen_uploaded_toget",
                   "gen_foreignrepo_toget", "gen_merge_keep", "gen_local_not_on_remote",
                   "incr_cleanup_uploaded", "incr_cleanup_foreignrepo",
                   "incr_merge_keep", "incr_update_local" }

\* C16: when the list generation of a run is over, in full and in
\* incremental mode, every todo project has today's keep list exactly when
\* it has both today's normalised uploads list and today's normalised
\* foreign-repo list
C16_KeepListExistence ==
    GenerationOver =>
        \A p \in TodoSet :
            KeepList(p).exists <=> (UploadsSorted(p).exists /\ ForeignSorted(p).exists)

\* the lists the ListsMaker writes
Artifacts ==
    { "-all-media-keep.gz", "-all-media-delete.gz", "-uploaded-toget.gz",
      "-foreignrepo-toget.gz", "-all-media-gone.gz", "-new-media-projectuploads.gz",
      "-new-media-foreignrepouploads.gz" }

\* the first fields of the lines never go down
SortedOnKey(lines) ==
    \A k \in 1..(Len(lines) - 1) : ~LexLess(lines[k + 1][1], lines[k][1])

\* C17: every list the ListsMaker writes from inventories sorted on the file
\* name is sorted on its first field: of two adjacent lines the first field
\* of the first is not greater than that of the second, also when one name
\* is a prefix of the other and when lines with and without further fields
\* are mixed in a keep list
C17_Sortedness ==
    \A p \in Projects : \A a \in Artifacts : SortedOnKey(lists[p][a].lines)

\* a keep list with "A.jpg" and a timestamp before "A.jpg.jpg" without one,
\* next to a fetch list of more than one line
C17_Witness ==
    \E p \in Projects :
        /\ \E k \in 1..(Len(KeepList(p).lines) - 1) :
              /\ KeepList(p).lines[k] = UploadRec(2, 1)
              /\ KeepList(p).lines[k + 1] = ForeignRec(3)
        /\ Len(ForeignToget(p).lines) > 1

\* no two lines have the same first field
NoDuplicateKeys(lines) ==
    \A j \in 1..Len(lines), k \in 1..Len(lines) :
        lines[j][1] = lines[k][1] => j = k

\* C18: no list the ListsMaker writes has two lines with the same file name:
\* the keep list has one record for a name that is in the uploads list and
\* in the foreign-repo list, and a normalised uploads list has one record
\* for a name the raw inventory lists with two timestamps
C18_NoDuplicateKeys ==
    \A p \in Projects :
        \A a \in Artifacts \cup { "-uploads-sorted.gz", "-foreignrepo-sorted.gz" } :
            NoDuplicateKeys(lists[p][a].lines)

\* the names of the files of a project's live tree, and of its archive of
\* deleted files
Present(p) == { f[1] : f \in media[p].files }
ArchivedDeleted(p) == { a[1] : a \in archive[p] }

\* C19: when delete_local_media_not_on_remote has run, not as a dry run, the
\* file of every line of the delete list of every todo project is gone from
\* the live tree and is in the archive of deleted files, once
C19_DeleteByList ==
    [][(pc = "delete_local_media" /\ pc' = "get_new_media" /\ ~syncer.dryrun) =>
          \A p \in TodoSet :
              \A k \in 1..Len(DeleteList(p).lines) :
                  LET filename == DeleteList(p).lines[k][1] IN
                      /\ filename \notin Present(p)'
                      /\ Cardinality({ a \in archive'[p] : a[1] = filename }) = 1]_vars

\* C20: a file comes into the live tree only by a download that ended with
\* status 200 and leaves it only into the archive of deleted files; a file
\* that is in the archive of deleted files is not in the live tree again, in
\* this run or a later one
C20_Lifecycle ==
    /\ [](\A p \in Projects : ArchivedDeleted(p) \cap Present(p) = {})
    /\ [][\A p \in Projects :
              /\ (Present(p) \ Present(p)') \subseteq ArchivedDeleted(p)'
              /\ \A n \in Present(p)' \ Present(p) :
                     /\ pc = "get_new_media"
                     /\ StatusOf(n) = 200
                     /\ \E q \in Projects, rt \in RepoTypes :
                            n \in budget'[q][rt].asked]_vars

\* -------------------------------------------------------------------------
\* C21: archive_inactive_projects, when it is not a dry run and it comes to
\* its end, moves the tree <mediaroot>/<projecttype>/<langcode>/ into the
\* archive if and only if that directory is the one of no active project
\* and the tree holds a media file; every other tree stays as it was.
\* -------------------------------------------------------------------------
ActiveDirs(active) ==
    { active[a].projecttype \o "/" \o active[a].langcode : a \in DOMAIN active }

ArchivedAt(arch, d, now, tree) ==
    /\ ArchiveTarget(d, now) \in DOMAIN arch
    /\ \/ arch[ArchiveTarget(d, now)].files = tree.files
       \/ arch[ArchiveTarget(d, now)].inner = tree

ArchiveProjectCalled(d) ==
    /\ TreeAt(media, inactive.trees, d).exists
    /\ TreeAt(media, inactive.trees, d).files # {}
    /\ DirKey(d) \notin ActiveDirs(sites'.active)
    /\ get_active_projects_by_projecttype_langcode(sites'.active).exc = "none"

C22_ArchiveCollision ==
    [][ (pc = "archive_inactive" /\ ~args.dryrun) =>
          \A d \in Projects \cup SpecialSites :
             (ArchiveProjectCalled(d)
              /\ ArchiveTarget(d, inactive.now) \in DOMAIN inactive.archived)
             => /\ exc' # "none"
                /\ inactive'.archived[ArchiveTarget(d, inactive.now)]
                     = inactive.archived[ArchiveTarget(d, inactive.now)] ]_vars

\* -------------------------------------------------------------------------
\* C23: get_content makes at most http_retries attempts; it returns the
\* body if and only if some attempt was answered with a 2xx status; when
\* every attempt was answered with another status it raises an error that
\* carries the last status code and returns no body.
\* -------------------------------------------------------------------------
Is2xx(status_code) == 200 <= status_code /\ status_code < 300

Answered2xx == \E k \in 1..fetch.asked : Is2xx(fetch.answers[k])

CallOver == fetch.at \in { "returned", "raised" }

C23_GetContent ==
    fetch.method = "get_content" =>
      /\ fetch.asked <= fetch.http_retries
      /\ (CallOver /\ fetch.asked >= 1) =>
            IF Answered2xx
            THEN fetch.at = "returned" /\ fetch.body # 0
            ELSE /\ fetch.at = "raised"
                 /\ fetch.errcode = fetch.answers[fetch.asked]
                 /\ fetch.body = 0

\* -------------------------------------------------------------------------
\* C24: when get_file has used up its retries without a 200 answer, then
\* with return_on_fail it returns the last status code, raises nothing and
\* writes no file, and without return_on_fail it raises.
\* -------------------------------------------------------------------------
RetriesExhausted == CallOver /\ fetch.asked >= 1 /\ ~fetch.done

C24_ReturnOnFail ==
    (fetch.method = "get_file" /\ RetriesExhausted) =>
       IF fetch.return_on_fail
       THEN /\ fetch.at = "returned"
            /\ fetch.code = fetch.answers[fetch.asked]
            /\ fetch.raised = "none"
            /\ fetch.dest = "absent"
       ELSE fetch.at = "raised" /\ fetch.raised = "HTTPError"

\* -------------------------------------------------------------------------
\* C25: after a call of get_file the destination holds the complete body or
\* no file at all; a call that failed, by its retries or by the body stream
\* breaking off, leaves no partial file.
\* -------------------------------------------------------------------------
C25_AllOrNothing ==
    (fetch.method = "get_file" /\ CallOver) =>
       /\ fetch.dest \in { "absent", "complete" }
       /\ (fetch.at = "raised" \/ fetch.code # 0) => fetch.dest = "absent"

\* -------------------------------------------------------------------------
\* C26: under --dryrun no step of a run, in any mode, makes, overwrites,
\* moves or deletes a file or a directory under the media root, the archive
\* root or the lists root.
\* -------------------------------------------------------------------------
C26_DryRun ==
    [][ args.dryrun =>
          /\ media' = media
          /\ inactive' = inactive
          /\ archive' = archive
          /\ workdirs' = workdirs
          /\ lists' = lists
          /\ journals' = journals ]_vars

\* -------------------------------------------------------------------------
\* C27: every component of a run holds the date stamp the run took at its
\* start, so that every path under <listsdir> read or written in the run
\* has the same date; no component takes the date again.
\* -------------------------------------------------------------------------
C27_DateStamp ==
    \A c \in DOMAIN clock.stamps :
        clock.stamps[c] # 0 => clock.stamps[c] = clock.today

\* -------------------------------------------------------------------------
\* C28: when a list that the list generation needs for one todo project is
\* absent, the phase skips that project and goes on: the run does not end
\* there, and every other todo project that has its own inputs gets its
\* fetch lists and its keep list.
\* -------------------------------------------------------------------------
HasInputs(p) ==
    LocalSorted(p).exists /\ UploadsSorted(p).exists /\ ForeignSorted(p).exists

C28_ErrorIsolation ==
    (GenerationOver /\ args.full /\ args.verbose /\ ~args.dryrun
       /\ \E q \in TodoSet : ~HasInputs(q)) =>
        /\ exc = "none"
        /\ \A p \in TodoSet :
              HasInputs(p) =>
                 /\ UploadedToget(p).exists
                 /\ ForeignToget(p).exists
                 /\ KeepList(p).exists

\* -------------------------------------------------------------------------
\* C29: with the index that get_most_recent built, get_most_recent_file(P,
\* S, index) is the greatest date D, an 8-digit directory name other than
\* today's unless do_today is set, such that <listsdir>/D/P/ holds the file
\* P + S, and None when there is no such date; what the run writes under
\* today's date afterwards does not change the answer.
\* -------------------------------------------------------------------------
DatesHolding(P, S) ==
    { d \in DOMAIN dated.root :
        /\ Len(d) = 8 /\ \A i \in 1..8 : d[i] \in 48..57
        /\ dated.do_today \/ d # DateName(clock.today)
        /\ P \in DOMAIN dated.root[d]
        /\ FileName(P, S) \in dated.root[d][P] }

GreatestName(D) == CHOOSE d \in D : \A e \in D : ~LexLess(d, e)

C29_MostRecentFile ==
    (pc = "indexed" \/ (pc = "writing" /\ ~dated.do_today)) =>
       \A P \in Projects, S \in PriorArtifacts \cup { "-all-media-delete.gz" } :
          LET answer == get_most_recent_file(P, S, Dict(most_recent_lists))
          IN  /\ answer.exc = "none"
              /\ IF DatesHolding(P, S) = {} THEN answer.date = 0
                 ELSE DateName(answer.date) = GreatestName(DatesHolding(P, S))

\* the keep list of the latest earlier date that has one is found, past a
\* later date without one and past the keep list written today
C29_Witness ==
    /\ pc = "writing" /\ ~dated.do_today /\ clock.today = 3
    /\ "enwiki" \in DOMAIN dated.root[DateName(3)]
    /\ FileName("enwiki", "-all-media-keep.gz") \in dated.root[DateName(3)]["enwiki"]
    /\ DateName(2) \in DOMAIN dated.root
    /\ FileName("enwiki", "-all-media-keep.gz") \notin dated.root[DateName(2)]["enwiki"]
    /\ DateName(1) \in DOMAIN dated.root
    /\ get_most_recent_file("enwiki", "-all-media-keep.gz", Dict(most_recent_lists)).date = 1

\* -------------------------------------------------------------------------
\* C30: with a --projects whitelist W, get_todos() is exactly the active
\* projects that W names, and all the active projects when no whitelist was
\* given; the foreign-repo wiki is never among them.
\* -------------------------------------------------------------------------
C30_Todos ==
    pc = "archive_inactive" =>
       /\ TodoSet = IF sites.whitelist = {} THEN DOMAIN sites.active
                    ELSE DOMAIN sites.active \cap sites.whitelist
       /\ sites.foreignrepo \notin TodoSet

\* -------------------------------------------------------------------------
\* C31: of two full runs that follow one another against an unchanged
\* remote, the second leaves every todo project the delete list and the two
\* fetch lists with the contents the first left.
\* -------------------------------------------------------------------------
ReconciledLists == { "-all-media-delete.gz", "-uploaded-toget.gz", "-foreignrepo-toget.gz" }

\* the working directories of a full run before this one are there
SecondRun(p) == prior[p]["-uploaded-toget.gz"].exists

C31_Idempotence ==
    \A p \in TodoSet :
        SecondRun(p) => \A s \in ReconciledLists : lists[p][s] = prior[p][s]

\* -------------------------------------------------------------------------
\* C32: the difference of a sorted list with itself, in either direction and
\* for the empty list too, comes to its end and writes an empty output.
\* -------------------------------------------------------------------------

\* the three differences of do_incr_lists_generation: where the run is when
\* the method is called, its input and its output
Diffs ==
    { [at |-> "incr_gone", in |-> "-all-media-keep.gz", out |-> "-all-media-gone.gz"],
      [at |-> "incr_new_uploaded", in |-> "-uploads-sorted.gz",
       out |-> "-new-media-projectuploads.gz"],
      [at |-> "incr_new_foreign", in |-> "-foreignrepo-sorted.gz",
       out |-> "-new-media-foreignrepouploads.gz"] }

\* today's input of a difference is the list of the run before
SameInput(p, d) ==
    /\ prior[p][d.in].exists
    /\ lists[p][d.in].exists
    /\ lists[p][d.in].lines = prior[p][d.in].lines

\* the difference d of project p is the one that does not come to its end:
\* the method stopped there, its output is the last one created
StuckAt(p, d) ==
    /\ exc = "never returns"
    /\ pc = d.at
    /\ lists[p][d.out].exists
    /\ \A k \in 1..Len(todos) :
           (\E j \in 1..(k - 1) : todos[j] = p) => ~lists[todos[k]][d.out].exists

C32_SelfDifference ==
    \A p \in TodoSet :
        \A d \in Diffs :
            SameInput(p, d) =>
                /\ ~StuckAt(p, d)
                /\ lists[p][d.out].exists => lists[p][d.out].lines = <<>>

\* the lists of new media of a project were written from an uploads list
\* with entries and from an empty foreign-repo list, both as in the run before
C32_Witness ==
    /\ pc = "sync" /\ exc = "none"
    /\ \E p \in TodoSet :
          /\ \A d \in Diffs : SameInput(p, d) /\ lists[p][d.out].exists
          /\ lists[p]["-uploads-sorted.gz"].lines # <<>>
          /\ lists[p]["-foreignrepo-sorted.gz"].lines = <<>>

\* -------------------------------------------------------------------------
\* C33: with the cap of a repotype at zero the Fetcher is called for no
\* entry of that repotype, and the retrieved and get_failed journals of that
\* repotype are not written: on a lists tree without journals none is there
\* at any time of the run.
\* -------------------------------------------------------------------------
C33_ZeroCap ==
    \A rt \in RepoTypes :
        MaxGets(rt) = 0 =>
            \A p \in Projects :
                /\ budget[p][rt].fetched = 0
                /\ ~journals[p][RetrievedSuffix(rt)].exists
                /\ ~journals[p][FailedSuffix(rt)].exists

RegistryBuilt == pc \in { "archive_inactive", "archived" } /\ exc = "none"

\* the project types and language codes of directories a local tree may hold
DirTypes == { "wikipedia", "wikimedia" }
DirLangs == { LangCode(d) : d \in Projects \cup SpecialSites } \cup { "xx" }

ReverseLookup(projecttype, langcode) ==
    get_projectname_from_type_langcode(sites.names, projecttype \o "/" \o langcode)

C35_RegistryRoundTrip ==
    RegistryBuilt =>
        /\ \A p \in DOMAIN sites.active :
               sites.active[p].projecttype \notin { "missing", "None" } =>
                   LET tl == get_projecttype_langcode(sites.active, p) IN
                       /\ tl.exc = "none"
                       /\ ReverseLookup(tl.projecttype, tl.langcode) = p
                       /\ is_active(p)
        /\ \A t \in DirTypes, l \in DirLangs :
               (\A p \in DOMAIN sites.active :
                    ~(sites.active[p].projecttype = t /\ sites.active[p].langcode = l)) =>
                   LET name == ReverseLookup(t, l)
                       tl == get_projecttype_langcode(sites.active, name)
                   IN  /\ name = t \o "/" \o l
                       /\ tl = [exc |-> "none", projecttype |-> t, langcode |-> l]
                       /\ ~is_active(name)

\* the registry holds a regular site and a special site whose type the api
\* gave, and a regular site has left the site matrix
C35_Witness ==
    /\ RegistryBuilt
    /\ "enwiki" \in DOMAIN sites.active
    /\ "metawiki" \in DOMAIN sites.active
    /\ sites.active["metawiki"].projecttype = "wikipedia"
    /\ "elwiki" \notin DOMAIN sites.active

\* -------------------------------------------------------------------------
\* C36: every file the downloader fetches is asked from the url of, and
\* stored in the tree of, the project whose fetch list names it, and the
\* record of it goes to that project's journals; a record written to a
\* journal is there for the rest of the run.
\* -------------------------------------------------------------------------

\* the records a journal holds, as a set
RecordSet(j) == { Flatten(j.lines)[k] : k \in 1..Len(Flatten(j.lines)) }

C36_ProjectIsolation ==
    /\ [](\A p \in Projects :
             \A r \in RecordSet(journals[p]["_local_retrieved.gz"])
                        \cup RecordSet(journals[p]["_local_get_failed.gz"]) :
                 r.url.project = p)
    /\ [][\A q \in Projects : media'[q] # media[q] => q = todos[dl.i]]_vars
    /\ [][\A p \in Projects, s \in JournalSuffixes :
              RecordSet(journals[p][s]) \subseteq RecordSet(journals'[p][s])]_vars

\* C37: --verbose changes only what is printed.  When the run with --verbose
\* has ended, it has ended at the statement and with the outcome of the run
\* without --verbose on the same files and flags (the two runs made the same
\* sequence of calls), and every artifact of every project has the contents
\* the run without --verbose left.
BothRunsEnded == args.verbose /\ quiet.exc # "" /\ exc # "none"

\* the file system and the network treated the two runs alike: os.walk
\* listed the media in the same order and no download of a list failed
SameEnvironment ==
    /\ exc # "HTTPError" /\ quiet.exc # "HTTPError"
    /\ \A p \in Projects : lists[p]["-local-media.gz"] = quiet.lists[p]["-local-media.gz"]

C37_VerboseOnlyPrints ==
    (BothRunsEnded /\ SameEnvironment) => /\ pc = quiet.pc
                                          /\ exc = quiet.exc
                                          /\ lists = quiet.lists

\* the local-inventory phase of a full run that writes is over: LocalFiles
\* has recorded and sorted the media of the todo projects
LocalInventoryOver ==
    /\ args.full /\ ~args.continue /\ ~args.dryrun
    /\ pc \notin { "init_mediadirs", "get_local_media_lists", "sort_local_media_lists" }

\* C38: the sorted local inventory LocalFiles writes for a project is the
\* very artifact the list generation opens as the local list of that
\* project.  After the local-inventory phase of a full run, for every todo
\* project whose sorted inventory LocalFiles wrote, the open of the local
\* list by generate_uploaded_files_to_get, generate_foreignrepo_files_to_get
\* and list_local_media_not_on_remote does not fail and yields the lines
\* LocalFiles wrote.
C38_ProducerConsumer ==
    LocalInventoryOver =>
        \A p \in TodoSet :
            lists[p]["-local-media-sorted.gz"].exists =>
                /\ ~OpenFails(lists, p, "_local_media_sorted.gz")
                /\ LocalSorted(p) = lists[p]["-local-media-sorted.gz"]

\* the run is in do_lists_retrieval, whose downloads are the first artifacts
\* a run without --full writes into <listsdir>/<today>/<project>/
InListsRetrieval == pc \in { "get_uploaded_media", "get_foreignrepo_media" }

\* C39: in every run mode, when a component writes an artifact into the
\* working directory of a todo project, the directory is there: made earlier
\* in the run or by an earlier run.  No download of a list that the server
\* answered ends on a missing <listsdir>/<today>/<project>/, and when a
\* downloaded list has been written for a todo project the run has that
\* project's working directory.
C39_WorkdirBeforeArtifacts ==
    /\ ~(InListsRetrieval /\ exc = "FileNotFoundError")
    /\ \A p \in TodoSet :
          (lists[p]["-local-wikiqueries.gz"].exists
              \/ lists[p]["-remote-wikiqueries.gz"].exists) => p \in workdirs

\* both sorted streams of the difference d of project p can be opened
BothStreams(p, d) == prior[p][d.in].exists /\ lists[p][d.in].exists

\* C40: show_extra_entries, and with it diff_lists and the three incremental
\* list generators, terminates for every pair of finite sorted streams, also
\* when the second stream is empty, ends before the first or compares less
\* than the first.  No difference of a todo project whose two streams are
\* there is one the method does not come back from.
C40_DifferenceTerminates ==
    \A p \in TodoSet :
        \A d \in Diffs :
            BothStreams(p, d) => ~StuckAt(p, d)

====
